---------------------------- MODULE Spec2Model ----------------------------
(***************************************************************************)
(* Content-acquisition pipeline of airag: the bounded breadth-first        *)
(* crawler (services/crawler/crawler.py), the chunking / ingestion stage   *)
(* and the collection lifecycle (services/crawler/ingest.py), and the      *)
(* table parser with its rate functions (parsers/table_parser.py).         *)
(*                                                                         *)
(* Several state machines share the module.  CrawlSpec runs one call of    *)
(* WebCrawler.crawl; IngestSpec, ChunkSpec and LoopSpec run one call of    *)
(* DocumentIngestor.ingest_documents; TableSpec one call of parse_table;   *)
(* DetectSpec and LocSpec one call of detect_rate_table or                 *)
(* extract_location_rates; StructSpec one call of ingest_structured_data;  *)
(* StoreSpec a run of _ensure_collection and reset_collection calls.  Each *)
(* specification keeps the other machines idle.                            *)
(***************************************************************************)
EXTENDS Integers, Sequences, FiniteSets, TLC

(***************************************************************************)
(* Bounds of the model.                                                    *)
(***************************************************************************)
\* largest max_pages_per_domain tried
MaxPagesBound == 3
\* largest max_depth tried
MaxDepthBound == 2
\* most anchors on one page
MaxLinks == 2
\* longest document text
MaxLen == 4
\* largest chunk_size tried
MaxChunkSize == 3
\* most documents in one batch
MaxDocs == 3
\* most turns of the chunking loop followed for one document
MaxChunks == 8
\* most rows in the body of a table
MaxRows == 2
\* most cells in a table row
MaxCells == 3
\* most columns of a Table handed to the rate functions
MaxHeaders == 3
\* most rows of a Table handed to extract_location_rates
MaxRateRows == 2
\* most keys of a structured record
MaxKeys == 2
\* most records in one call of ingest_structured_data
MaxRecords == 2
\* most points held by the collection
MaxPoints == 2
\* most lifecycle calls in one run
MaxCalls == 3
\* most requests the worker answers in one run
MaxRequests == 2
\* the finest confidence is 1 / MaxConfidence
MaxConfidence == 2

VARIABLES
    \* ---- WebCrawler configuration (crawler.py:54-59) and crawl() argument
    max_pages_per_domain,
    max_depth,
    include_pdf,
    include_docs,
    start_url,
    \* ---- locals of WebCrawler.crawl (crawler.py:86-93)
    visited,        \* set of URLs
    documents,      \* list of Documents
    queue,          \* deque of <<url, depth>>
    cpc,            \* "idle" | "loop" | "done": position in crawl()
    \* ---- history of the crawl: one record per executed fetch, and the
    \* anchors met on fetched pages that the link filter turned down
    trace,
    rejected,
    \* ---- DocumentIngestor configuration (ingest.py:49-50)
    chunk_size,
    chunk_overlap,
    \* ---- ingest_documents: its argument, its position and its locals
    in_documents,   \* the documents argument
    ipc,            \* "idle" | "call" | "loop" | "chunk" | "embed" | "upsert"
                    \* | "done" | "raised"
    doc_index,      \* i of enumerate(documents, 1); 0 before the first
    total_chunks,
    chunks,         \* _chunk_document's list, then the caller's
    start,          \* _chunk_document's window start
    chunk_num,
    embeddings,
    result,         \* the returned count, -1 before the return
    \* ---- the vector store seen from outside: the upsert calls received
    upserts,
    \* ---- history: the window starts of chunks, the documents whose step
    \* raised, the documents skipped for having no chunk
    windows,
    failed,
    skipped,
    \* ---- TableParser.parse_table: the <table> element, the returned value
    table,
    table_data,     \* the returned value: <<>> for None, else <<Table>>
    tpc,            \* "idle" | "call" | "done" | "failed"
    \* ---- detect_rate_table and extract_location_rates: the table_data
    \* argument and the returned values
    rate_table,
    detected,       \* the value detect_rate_table returned
    location_rates, \* the list extract_location_rates returned
    rpc,            \* "idle" | "call" | "done"
    \* ---- ingest_structured_data: its argument, its position and locals
    sd_data,
    sd_index,
    sd_points,
    sd_result,      \* the returned count, -1 before the return
    sd_upserts,     \* the upsert calls the store received
    spc,            \* "idle" | "loop" | "upsert" | "done" | "raised"
    \* ---- the collection in the vector store and the last lifecycle call
    collection,     \* [exists, points]
    lc_last,        \* what the last call found, did and gave
    lc_calls,       \* number of calls made
    \* ---- one call of _crawl_page: its argument, the response the site
    \*      gives, and what the call returned
    page_url,
    response,       \* [status, content_type, parsed, linkerr, anchors]
    page_result,    \* [doc, links]
    fpc,            \* "idle" | "call" | "done"
    \* ---- the worker's POST /execute: the request at hand and the
    \*      responses sent so far
    request,        \* [task_type, handler]
    replies,        \* list of [task_type, handler, status_code, success]
    wpc,            \* "idle" | "wait" | "execute"
    \* ---- Orchestrator: its configuration, the locals of one
    \*      process_question or process_question_streaming call, the
    \*      stage calls it made, what it returned and what it yielded
    confidence_threshold,
    classification, \* [intent_type, confidence]
    worker_response,\* [called, success]
    thinking_steps, \* the types of the entries of thinking_steps
    stages,         \* list of [stage, outcome], in call order
    orch_result,    \* [kind, intent, confidence]
    events,         \* the step types of the events yielded so far
    opc             \* the position in the method

crawlVars == <<max_pages_per_domain, max_depth, include_pdf, include_docs,
               start_url, visited, documents, queue, cpc, trace, rejected>>

ingestVars == <<chunk_size, chunk_overlap, in_documents, ipc, doc_index,
                total_chunks, chunks, start, chunk_num, embeddings, result,
                upserts, windows, failed, skipped>>

tableVars == <<table, table_data, tpc>>

rateVars == <<rate_table, detected, location_rates, rpc>>

structVars == <<sd_data, sd_index, sd_points, sd_result, sd_upserts, spc>>

storeVars == <<collection, lc_last, lc_calls>>

fetchVars == <<page_url, response, page_result, fpc>>

workerVars == <<request, replies, wpc>>

orchVars == <<confidence_threshold, classification, worker_response,
              thinking_steps, stages, orch_result, events, opc>>

restVars == <<fetchVars, workerVars, orchVars>>

parserVars == <<tableVars, rateVars>>

auxVars == <<parserVars, structVars, storeVars, restVars>>

vars == <<crawlVars, ingestVars, auxVars>>

(***************************************************************************)
(* URLs.  A URL is scheme://host[:port]path; path is a list of tokens.     *)
(***************************************************************************)
Url(s, h, p, path) == [scheme |-> s, host |-> h, port |-> p, path |-> path]

URLS ==
    { Url("http", "A", "", <<>>),
      Url("http", "A", "", <<"a">>),
      Url("https", "A", "", <<"b">>),
      Url("http", "A", "", <<"c">>),
      Url("http", "A", "8080", <<"a">>),
      Url("http", "B", "", <<"a">>),
      Url("http", "A", "", <<"login">>) }

StartURLs == { Url("http", "A", "", <<>>) }

\* mutant: the scheme taken for the domain
GetDomainScheme(url) == url.scheme

\* urlparse(url).netloc: host plus the port when one is written
GetDomain(url) == <<url.host, url.port>>

\* link.startswith("http")
StartsWithHttp(url) == url.scheme \in {"http", "https"}

\* tokens of the denylist: r'/login' ... r'/download', r'#' match anywhere,
\* r'\.pdf$', r'\.zip$', r'\.exe$' match at the end only
SkipAnywhere == {"login", "logout", "signin", "signup", "register", "download", "#"}
SkipAtEnd == {".pdf", ".zip", ".exe"}

\* mutant: a .pdf ending passes when PDF ingestion is enabled
MatchesSkipPatternPdfEnabled(url) ==
    \/ \E i \in 1..Len(url.path) : url.path[i] \in SkipAnywhere
    \/ /\ Len(url.path) > 0
       /\ url.path[Len(url.path)] \in SkipAtEnd
       /\ ~(include_pdf /\ url.path[Len(url.path)] = ".pdf")

MatchesSkipPattern(url) ==
    \/ \E i \in 1..Len(url.path) : url.path[i] \in SkipAnywhere
    \/ Len(url.path) > 0 /\ url.path[Len(url.path)] \in SkipAtEnd

ShouldFollowLink(link, current_url) ==
    /\ StartsWithHttp(link)
    /\ GetDomain(link) = GetDomain(current_url)
    /\ ~MatchesSkipPattern(link)

Range(q) == {q[i] : i \in 1..Len(q)}

RECURSIVE FilterLinks(_, _)
FilterLinks(anchors, url) ==
    IF anchors = <<>> THEN <<>>
    ELSE (IF ShouldFollowLink(Head(anchors), url) THEN <<Head(anchors)>> ELSE <<>>)
         \o FilterLinks(Tail(anchors), url)


(***************************************************************************)
(* What one HTTP GET can bring back.  status "error" is a transport error  *)
(* or a non-2xx status (raise_for_status); ctype is the signature found in *)
(* the Content-Type header; parsed says whether the format parser built a  *)
(* Document (FALSE: it caught its own exception and returned None);        *)
(* linkerr says whether the anchor scan of _parse_html raised; anchors are *)
(* the hrefs of the page after urljoin, in document order.                 *)
(***************************************************************************)
RECURSIVE SeqsUpTo(_, _)
SeqsUpTo(S, n) ==
    IF n = 0 THEN {<<>>}
    ELSE LET shorter == SeqsUpTo(S, n - 1)
         IN  shorter \cup {Append(q, x) : q \in {r \in shorter : Len(r) = n - 1}, x \in S}

Response(st, ct, pa, le, an) ==
    [status |-> st, ctype |-> ct, parsed |-> pa, linkerr |-> le, anchors |-> an]

Responses ==
    {Response("error", "other", FALSE, FALSE, <<>>)}
    \cup {Response("ok", "html", pa, le, an) :
            pa \in BOOLEAN, le \in BOOLEAN, an \in SeqsUpTo(URLS, MaxLinks)}
    \cup {Response("ok", ct, pa, FALSE, <<>>) :
            ct \in {"pdf", "office", "other"}, pa \in BOOLEAN}

\* a parser's Document for url, or None (the empty list)
Parse(url, resp, doc_type) ==
    IF resp.parsed THEN <<[url |-> url, type |-> doc_type]>> ELSE <<>>

ParseHtml(url, resp) ==
    [doc |-> Parse(url, resp, "html"), links |-> FilterLinks(resp.anchors, url)]

CrawlPage(url, resp) ==
    IF resp.status # "ok" THEN [doc |-> <<>>, links |-> <<>>]
    ELSE IF resp.ctype = "html"
         THEN IF resp.linkerr THEN [doc |-> <<>>, links |-> <<>>]
              ELSE ParseHtml(url, resp)
    ELSE IF resp.ctype = "pdf" /\ include_pdf
         THEN [doc |-> Parse(url, resp, "pdf"), links |-> <<>>]
    ELSE IF include_docs /\ resp.ctype = "office"
         THEN [doc |-> Parse(url, resp, "docx"), links |-> <<>>]
    ELSE [doc |-> <<>>, links |-> <<>>]

\* how the fetch of one URL went, for the history
Outcome(resp) ==
    IF resp.status # "ok" THEN "fetch_error"
    ELSE IF resp.ctype = "html"
         THEN IF resp.linkerr THEN "link_error"
              ELSE IF resp.parsed THEN "ok" ELSE "parse_error"
    ELSE IF \/ resp.ctype = "pdf" /\ include_pdf
            \/ resp.ctype = "office" /\ include_docs
         THEN IF resp.parsed THEN "ok" ELSE "parse_error"
    ELSE "unsupported"

(***************************************************************************)
(* WebCrawler.crawl                                                        *)
(***************************************************************************)
\* the table parser while another operation runs: not called
TableIdle ==
    /\ table = "none"
    /\ table_data = <<>>
    /\ tpc = "idle"

RateIdle ==
    /\ rate_table = "none"
    /\ detected = FALSE
    /\ location_rates = <<>>
    /\ rpc = "idle"

\* ingest_structured_data not called
StructIdle ==
    /\ sd_data = <<>>
    /\ sd_index = 0
    /\ sd_points = <<>>
    /\ sd_result = -1
    /\ sd_upserts = <<>>
    /\ spc = "idle"

\* a collection of the store: there or not, with its number of points
Collection(e, n) == [exists |-> e, points |-> n]

\* what is kept of a lifecycle call: the operation, the store call made to
\* fail, the collection before and after the call, whether
\* create_collection went through, and how the call ended
LifecycleCall(op, fail, before, after, created, outcome) ==
    [op |-> op, fail |-> fail, before |-> before, after |-> after,
     created |-> created, outcome |-> outcome]

NoCall ==
    LifecycleCall("none", "none", Collection(TRUE, 0), Collection(TRUE, 0),
                  FALSE, "returned")

\* no lifecycle call is made; the collection is there and empty
StoreIdle ==
    /\ collection = Collection(TRUE, 0)
    /\ lc_last = NoCall
    /\ lc_calls = 0

\* _crawl_page is not called on its own
FetchIdle ==
    /\ page_url = "none"
    /\ response = "none"
    /\ page_result = [doc |-> <<>>, links |-> <<>>]
    /\ fpc = "idle"

\* a request to /execute: its task_type and what the task function called
\* for it would do, return a result ("returns") or raise ("raises")
ExecuteRequest(task_type, handler) == [task_type |-> task_type, handler |-> handler]

NoRequest == ExecuteRequest("none", "returns")

\* the worker service is not running
WorkerIdle ==
    /\ request = NoRequest
    /\ replies = <<>>
    /\ wpc = "idle"

\* Classification(intent_type=..., confidence=...); confidence is counted
\* in steps of 1 / MaxConfidence
Classification(intent_type, confidence) ==
    [intent_type |-> intent_type, confidence |-> confidence]

\* WorkerResponse(success=...); called says whether execute_via_worker ran
WorkerResponse(called, success) == [called |-> called, success |-> success]

\* what a call gave: kind is "none" while it runs, "returned" with the
\* intent and confidence of the dict it returned, "raised" when an
\* exception left it
OrchestratorResult(kind, intent, confidence) ==
    [kind |-> kind, intent |-> intent, confidence |-> confidence]

\* the locals of a call before its first statement
OrchLocalsFresh ==
    /\ classification = Classification("none", 0)
    /\ worker_response = WorkerResponse(FALSE, FALSE)
    /\ thinking_steps = <<>>
    /\ stages = <<>>
    /\ orch_result = OrchestratorResult("none", "none", 0)
    /\ events = <<>>

\* the orchestrator is not called
OrchIdle ==
    /\ confidence_threshold = 0
    /\ OrchLocalsFresh
    /\ opc = "idle"

RestIdle == FetchIdle /\ WorkerIdle /\ OrchIdle

AuxIdle == TableIdle /\ RateIdle /\ StructIdle /\ StoreIdle /\ RestIdle

\* the ingestor while a crawl runs: not called
IngestIdle ==
    /\ chunk_size = 1
    /\ chunk_overlap = 0
    /\ in_documents = <<>>
    /\ ipc = "idle"
    /\ doc_index = 0
    /\ total_chunks = 0
    /\ chunks = <<>>
    /\ start = 0
    /\ chunk_num = 0
    /\ embeddings = <<>>
    /\ result = -1
    /\ upserts = <<>>
    /\ windows = <<>>
    /\ failed = {}
    /\ skipped = {}

CrawlInit ==
    /\ IngestIdle
    /\ AuxIdle
    /\ max_pages_per_domain \in 0..MaxPagesBound
    /\ max_depth \in 0..MaxDepthBound
    /\ include_pdf = TRUE
    /\ include_docs = FALSE
    /\ start_url \in StartURLs
    /\ visited = {}
    /\ documents = <<>>
    /\ queue = <<<<start_url, 0>>>>
    /\ cpc = "loop"
    /\ trace = <<>>
    /\ rejected = {}

\* mutant: the page cap left out of the loop condition
LoopCondNoCap == queue # <<>>

LoopCond == queue # <<>> /\ Cardinality(visited) < max_pages_per_domain

\* mutant: the visited test left out
SkipEntryRevisit(url, depth) ==
    \/ depth > max_depth
    \/ GetDomain(url) # GetDomain(start_url)

\* the three "continue" tests of the loop body
SkipEntry(url, depth) ==
    \/ url \in visited
    \/ depth > max_depth
    \/ GetDomain(url) # GetDomain(start_url)

RECURSIVE EnqueueSameDepth(_, _, _, _)
\* mutant: links enqueued at the depth of the page they were found on
EnqueueSameDepth(q, links, seen, depth) ==
    IF links = <<>> THEN q
    ELSE EnqueueSameDepth(IF Head(links) \notin seen THEN Append(q, <<Head(links), depth>>) ELSE q,
                          Tail(links), seen, depth)

RECURSIVE EnqueueFront(_, _, _, _)
\* mutant: appendleft, a stack instead of a FIFO queue
EnqueueFront(q, links, seen, depth) ==
    IF links = <<>> THEN q
    ELSE EnqueueFront(IF Head(links) \notin seen THEN <<<<Head(links), depth + 1>>>> \o q ELSE q,
                      Tail(links), seen, depth)

RECURSIVE Enqueue(_, _, _, _)
\* for link in links: if link not in visited: queue.append((link, depth + 1))
Enqueue(q, links, seen, depth) ==
    IF links = <<>> THEN q
    ELSE Enqueue(IF Head(links) \notin seen THEN Append(q, <<Head(links), depth + 1>>) ELSE q,
                 Tail(links), seen, depth)

\* mutant: depth <= max_depth
LinksToFollowInclusive(links, depth) == IF depth <= max_depth THEN links ELSE <<>>

LinksToFollow(links, depth) == IF depth < max_depth THEN links ELSE <<>>

\* mutant: queue[0] read, nothing removed
PeekLeft(q) == q

\* queue.popleft(): what is left of the queue
PopLeft(q) == Tail(q)

\* one iteration that pops an entry and drops it
Skip ==
    /\ cpc = "loop"
    /\ LoopCond
    /\ SkipEntry(Head(queue)[1], Head(queue)[2])
    /\ queue' = PopLeft(queue)
    /\ UNCHANGED <<max_pages_per_domain, max_depth, include_pdf, include_docs,
                   start_url, visited, documents, cpc, trace, rejected>>
    /\ UNCHANGED <<ingestVars, auxVars>>

\* mutant: the URL is not recorded
MarkVisitedNot(urls, url) == urls

\* visited.add(url), before the fetch
MarkVisited(urls, url) == urls \cup {url}

\* one iteration that visits the popped URL
VisitWith(responses) ==
    /\ cpc = "loop"
    /\ LoopCond
    /\ LET url == Head(queue)[1]
           depth == Head(queue)[2]
       IN  /\ ~SkipEntry(url, depth)
           /\ \E resp \in responses :
                LET r == CrawlPage(url, resp)
                    seen == MarkVisited(visited, url)
                    q == Enqueue(PopLeft(queue), LinksToFollow(r.links, depth), seen, depth)
                IN  /\ visited' = seen
                    /\ documents' = documents \o r.doc
                    /\ queue' = q
                    /\ trace' = Append(trace,
                                  [url |-> url, depth |-> depth,
                                   outcome |-> Outcome(resp),
                                   doc |-> r.doc, links |-> r.links,
                                   enqueued |-> Len(q) - Len(PopLeft(queue))])
                    /\ rejected' = rejected \cup
                          (IF Outcome(resp) \in {"ok", "parse_error"} /\ resp.ctype = "html"
                           THEN Range(resp.anchors) \ Range(r.links)
                           ELSE {})
    /\ UNCHANGED <<max_pages_per_domain, max_depth, include_pdf, include_docs,
                   start_url, cpc>>
    /\ UNCHANGED <<ingestVars, auxVars>>

\* against the responses of Responses
Visit == VisitWith(Responses)

\* the loop condition fails: return documents
Return ==
    /\ cpc = "loop"
    /\ ~LoopCond
    /\ cpc' = "done"
    /\ UNCHANGED <<max_pages_per_domain, max_depth, include_pdf, include_docs,
                   start_url, visited, documents, queue, trace, rejected>>
    /\ UNCHANGED <<ingestVars, auxVars>>

CrawlNext == Skip \/ Visit \/ Return

CrawlSpec == CrawlInit /\ [][CrawlNext]_vars

(***************************************************************************)
(* Documents and chunks (ingest.py).  A text is a list of characters.  A   *)
(* key a Document may lack holds "absent" when it is missing.              *)
(***************************************************************************)
Chars == {"a", "b"}

Min(a, b) == IF a < b THEN a ELSE b
Max(a, b) == IF a > b THEN a ELSE b

\* text[lo:hi] of Python: negative indices count from the end, both are
\* clipped to the text
PySlice(text, lo, hi) ==
    LET n == Len(text)
        norm(k) == IF k < 0 THEN Max(k + n, 0) ELSE Min(k, n)
    IN  IF norm(lo) < norm(hi) THEN SubSeq(text, norm(lo) + 1, norm(hi)) ELSE <<>>

Doc(text, url, type, sd) ==
    [text |-> text, url |-> url, title |-> "t", type |-> type,
     metadata |-> "absent", structured_data |-> sd]

\* doc.get(key, default)
Get(value, default) == IF value = "absent" THEN default ELSE value

\* mutant: the slice ends one character early
ChunkTextShort(text, from) == PySlice(text, from, from + chunk_size - 1)

\* end = start + chunk_size; chunk_text = text[start:end]
ChunkText(text, from) == PySlice(text, from, from + chunk_size)

\* mutant: the window moves one character too far
NextStartOffByOne(from) == (from + chunk_size) - chunk_overlap + 1

\* mutant: the next window starts where this one ends, the overlap dropped
NextStartNoOverlap(from) == from + chunk_size

\* mutant: the overlap added to the end of the window
NextStartPlusOverlap(from) == (from + chunk_size) + chunk_overlap

\* start = end - chunk_overlap
NextStart(from) == (from + chunk_size) - chunk_overlap

\* mutant: the chunk dict without the structured_data key
MakeChunkNoStructured(doc, from, num) ==
    [text |-> ChunkText(doc.text, from),
     url |-> Get(doc.url, "None"),
     title |-> Get(doc.title, "None"),
     type |-> Get(doc.type, "text"),
     chunk_number |-> num,
     metadata |-> Get(doc.metadata, "{}"),
     structured_data |-> "absent"]

\* the chunk dict built in the loop body
MakeChunk(doc, from, num) ==
    [text |-> ChunkText(doc.text, from),
     url |-> Get(doc.url, "None"),
     title |-> Get(doc.title, "None"),
     type |-> Get(doc.type, "text"),
     chunk_number |-> num,
     metadata |-> Get(doc.metadata, "{}"),
     structured_data |-> IF doc.structured_data \in {"absent", "empty"}
                         THEN "absent" ELSE doc.structured_data]

\* embedding_model.encode: one vector per text, a function of the text
Encode(text) == [of |-> text]

\* _generate_embeddings(texts)
GenerateEmbeddings(texts) == [k \in 1..Len(texts) |-> Encode(texts[k])]

\* mutant: the last chunk gets no point
PointsDropLast(chs, embs, base) ==
    [k \in 1..(Min(Len(chs), Len(embs)) - 1) |->
        [id |-> base + k, vector |-> embs[k], payload |-> chs[k]]]

\* zip(chunks, embeddings) into PointStructs; ids are fresh (uuid4)
Points(chs, embs, base) ==
    [k \in 1..Min(Len(chs), Len(embs)) |->
        [id |-> base + k, vector |-> embs[k], payload |-> chs[k]]]

\* the points the store holds: the upsert calls end to end
RECURSIVE Store(_)
Store(calls) == IF calls = <<>> THEN <<>> ELSE calls[1].points \o Store(Tail(calls))

\* mutant: the handler lets the exception through
OnDocErrorPropagate == "raised"

\* except Exception as e: logger.error(...); the loop goes on
OnDocError == "loop"

(***************************************************************************)
(* DocumentIngestor.ingest_documents                                       *)
(***************************************************************************)
CrawlIdle ==
    /\ max_pages_per_domain = 0
    /\ max_depth = 0
    /\ include_pdf = TRUE
    /\ include_docs = FALSE
    /\ start_url \in StartURLs
    /\ visited = {}
    /\ documents = <<>>
    /\ queue = <<>>
    /\ cpc = "idle"
    /\ trace = <<>>
    /\ rejected = {}

\* the state at the call of ingest_documents, for a batch drawn from batches
IngestCallWith(batches) ==
    /\ CrawlIdle
    /\ AuxIdle
    /\ in_documents \in batches
    /\ ipc = "call"
    /\ doc_index = 0
    /\ total_chunks = 0
    /\ chunks = <<>>
    /\ start = 0
    /\ chunk_num = 0
    /\ embeddings = <<>>
    /\ result = -1
    /\ upserts = <<>>
    /\ windows = <<>>
    /\ failed = {}
    /\ skipped = {}

\* the state at the call under the chunker's precondition
\* 0 <= chunk_overlap < chunk_size
IngestInitWith(batches) ==
    /\ chunk_size \in 1..MaxChunkSize
    /\ chunk_overlap \in 0..(chunk_size - 1)
    /\ IngestCallWith(batches)

\* batches of up to MaxDocs documents whose texts differ in length
IngestBatches ==
    SeqsUpTo({Doc([k \in 1..n |-> "a"], "u", "html", "absent") : n \in 0..MaxLen}, MaxDocs)

\* batches of at most one document, over every text and optional key
ChunkBatches ==
    SeqsUpTo({[Doc(t, "u", ty, sd) EXCEPT !.metadata = md] :
                  t \in SeqsUpTo(Chars, MaxLen),
                  ty \in {"absent", "pdf"},
                  md \in {"absent", "meta"},
                  sd \in {"absent", "empty", "tables"}}, 1)

IngestInit == IngestInitWith(IngestBatches)

ChunkInit == IngestInitWith(ChunkBatches)

\* the state at the call for any configuration the constructor accepts:
\* __init__ stores chunk_size and chunk_overlap as given
LoopInit ==
    /\ chunk_size \in 0..MaxChunkSize
    /\ chunk_overlap \in 0..(MaxChunkSize + 1)
    /\ IngestCallWith(ChunkBatches)

\* if not documents: return 0
Call ==
    /\ ipc = "call"
    /\ IF in_documents = <<>>
       THEN /\ result' = 0
            /\ ipc' = "done"
            /\ UNCHANGED total_chunks
       ELSE /\ total_chunks' = 0
            /\ ipc' = "loop"
            /\ UNCHANGED result
    /\ UNCHANGED <<chunk_size, chunk_overlap, in_documents, doc_index, chunks,
                   start, chunk_num, embeddings, upserts, windows, failed, skipped>>
    /\ UNCHANGED <<crawlVars, auxVars>>

\* the next document: _chunk_document is entered; an empty text returns []
\* at once and the document is skipped with a warning
StartDoc ==
    /\ ipc = "loop"
    /\ doc_index < Len(in_documents)
    /\ doc_index' = doc_index + 1
    /\ chunks' = <<>>
    /\ windows' = <<>>
    /\ start' = 0
    /\ chunk_num' = 0
    /\ IF in_documents[doc_index + 1].text = <<>>
       THEN /\ skipped' = skipped \cup {doc_index + 1}
            /\ ipc' = "loop"
       ELSE /\ ipc' = "chunk"
            /\ UNCHANGED skipped
    /\ UNCHANGED <<chunk_size, chunk_overlap, in_documents, total_chunks,
                   embeddings, result, upserts, failed>>
    /\ UNCHANGED <<crawlVars, auxVars>>

\* one turn of while start < len(text)
ChunkStep ==
    /\ ipc = "chunk"
    /\ start < Len(in_documents[doc_index].text)
    /\ Len(chunks) < MaxChunks
    /\ chunks' = Append(chunks, MakeChunk(in_documents[doc_index], start, chunk_num))
    /\ windows' = Append(windows, start)
    /\ start' = NextStart(start)
    /\ chunk_num' = chunk_num + 1
    /\ UNCHANGED <<chunk_size, chunk_overlap, in_documents, ipc, doc_index,
                   total_chunks, embeddings, result, upserts, failed, skipped>>
    /\ UNCHANGED <<crawlVars, auxVars>>

\* the while loop ends: return chunks
ChunkReturn ==
    /\ ipc = "chunk"
    /\ ~(start < Len(in_documents[doc_index].text))
    /\ ipc' = "embed"
    /\ UNCHANGED <<chunk_size, chunk_overlap, in_documents, doc_index,
                   total_chunks, chunks, start, chunk_num, embeddings, result,
                   upserts, windows, failed, skipped>>
    /\ UNCHANGED <<crawlVars, auxVars>>

\* embeddings = self._generate_embeddings([c["text"] for c in chunks])
Embed ==
    /\ ipc = "embed"
    /\ embeddings' = GenerateEmbeddings([k \in 1..Len(chunks) |-> chunks[k].text])
    /\ ipc' = "upsert"
    /\ UNCHANGED <<chunk_size, chunk_overlap, in_documents, doc_index,
                   total_chunks, chunks, start, chunk_num, result, upserts,
                   windows, failed, skipped>>
    /\ UNCHANGED <<crawlVars, auxVars>>

\* the points are built and upserted in one call
Upsert ==
    /\ ipc = "upsert"
    /\ upserts' = Append(upserts,
                     [doc |-> doc_index,
                      points |-> Points(chunks, embeddings, Len(Store(upserts))),
                      windows |-> windows])
    /\ total_chunks' = total_chunks + Len(chunks)
    /\ ipc' = "loop"
    /\ UNCHANGED <<chunk_size, chunk_overlap, in_documents, doc_index, chunks,
                   start, chunk_num, embeddings, result, windows, failed, skipped>>
    /\ UNCHANGED <<crawlVars, auxVars>>

\* the chunking, the embedding or the upsert of this document raises (a
\* failed upsert stores nothing); the except clause takes over
Raise ==
    /\ ipc \in {"chunk", "embed", "upsert"}
    /\ failed' = failed \cup {doc_index}
    /\ ipc' = OnDocError
    /\ UNCHANGED <<chunk_size, chunk_overlap, in_documents, doc_index,
                   total_chunks, chunks, start, chunk_num, embeddings, result,
                   upserts, windows, skipped>>
    /\ UNCHANGED <<crawlVars, auxVars>>

\* mutant: the count of the documents that were stored
ReturnCountStored == Len(upserts)

\* return len(documents)
ReturnCount == Len(in_documents)

\* the for loop is over: the count is returned
Finish ==
    /\ ipc = "loop"
    /\ doc_index = Len(in_documents)
    /\ result' = ReturnCount
    /\ ipc' = "done"
    /\ UNCHANGED <<chunk_size, chunk_overlap, in_documents, doc_index,
                   total_chunks, chunks, start, chunk_num, embeddings, upserts,
                   windows, failed, skipped>>
    /\ UNCHANGED <<crawlVars, auxVars>>

IngestNext ==
    Call \/ StartDoc \/ ChunkStep \/ ChunkReturn \/ Embed \/ Upsert \/ Raise \/ Finish

IngestSpec == IngestInit /\ [][IngestNext]_vars

ChunkSpec == ChunkInit /\ [][IngestNext]_vars

LoopSpec == LoopInit /\ [][IngestNext]_vars

\* the crawl is one sequential loop: an enabled iteration is taken
CrawlLive == CrawlSpec /\ WF_vars(CrawlNext)

(***************************************************************************)
(* Properties of WebCrawler.crawl                                          *)
(***************************************************************************)
TraceUrls == {trace[i].url : i \in 1..Len(trace)}

\* C1: the visited set never holds more than max_pages_per_domain URLs, a
\* URL is fetched only once it is in visited, and so no more than
\* max_pages_per_domain fetches are made.
C1_PageCap ==
    /\ Cardinality(visited) <= max_pages_per_domain
    /\ TraceUrls \subseteq visited
    /\ Len(trace) <= max_pages_per_domain

\* the cap stopped a crawl that still had an unvisited URL queued, after a
\* fetch failure
C1_Witness ==
    /\ cpc = "done"
    /\ max_pages_per_domain >= 2
    /\ Cardinality(visited) = max_pages_per_domain
    /\ \E i \in 1..Len(queue) : queue[i][1] \notin visited
    /\ \E i \in 1..Len(trace) : trace[i].outcome = "fetch_error"

\* C2: no URL of another host than start_url's is visited, fetched, or the
\* source of a returned Document.
C2_SameHost ==
    /\ \A u \in visited : u.host = start_url.host
    /\ \A i \in 1..Len(trace) : trace[i].url.host = start_url.host
    /\ \A i \in 1..Len(documents) : documents[i].url.host = start_url.host

\* a fetched page carried an anchor to another host, and the crawl went on
\* to other pages
C2_Witness ==
    /\ \E u \in rejected : u.host # start_url.host
    /\ Len(trace) >= 2
    /\ Len(documents) >= 2

RECURSIVE ReachWithin(_)
\* the URLs a chain of at most k followed links leads to from start_url,
\* the links being those the fetched pages gave
ReachWithin(k) ==
    IF k = 0 THEN {start_url}
    ELSE LET near == ReachWithin(k - 1)
         IN  near \cup UNION {Range(trace[i].links) :
                                i \in {j \in 1..Len(trace) : trace[j].url \in near}}

\* C3: every fetched URL, and the source of every Document, is visited at a
\* depth of at most max_depth and is within max_depth followed links of
\* start_url.
C3_DepthBound ==
    /\ \A i \in 1..Len(trace) :
         /\ trace[i].depth <= max_depth
         /\ trace[i].url \in ReachWithin(trace[i].depth)
    /\ \A i \in 1..Len(documents) : documents[i].url \in ReachWithin(max_depth)

\* a page at the deepest level was fetched and its links were left alone
C3_Witness ==
    /\ max_depth = MaxDepthBound
    /\ \E i \in 1..Len(trace) :
         /\ trace[i].depth = max_depth
         /\ trace[i].links # <<>>
         /\ trace[i].doc # <<>>

RECURSIVE DocsOf(_)
\* the Documents of the visits, in visit order
DocsOf(t) == IF t = <<>> THEN <<>> ELSE t[1].doc \o DocsOf(Tail(t))

\* C4: visits happen in non-decreasing depth order, the Documents are in
\* visit order, and no queued unvisited URL is shallower than a visited one.
C4_BreadthFirst ==
    /\ \A i, j \in 1..Len(trace) : i < j => trace[i].depth <= trace[j].depth
    /\ documents = DocsOf(trace)
    /\ \A i \in 1..Len(queue) : \A j \in 1..Len(trace) :
         queue[i][1] \notin visited => trace[j].depth <= queue[i][2]

\* the cap stopped the crawl with a deeper URL still queued and unvisited
C4_Witness ==
    /\ cpc = "done"
    /\ Cardinality(visited) = max_pages_per_domain
    /\ Len(documents) >= 2
    /\ trace[Len(trace)].depth = 1
    /\ \E i \in 1..Len(queue) : queue[i][1] \notin visited /\ queue[i][2] = 2

Failed(t) == t.outcome \in {"fetch_error", "parse_error", "link_error"}

\* C5: a URL whose fetch or parse fails gives no Document and no links.
C5_FailureGivesNothing ==
    \A i \in 1..Len(trace) :
        Failed(trace[i]) => trace[i].doc = <<>> /\ trace[i].links = <<>>

\* C6: the crawl returns, and then the queue is empty or the cap is reached.
C6_Terminates ==
    <>(cpc = "done" /\ (queue = <<>> \/ Cardinality(visited) >= max_pages_per_domain))

\* a crawl of a cyclic site ran the queue dry below the cap
C6_Witness ==
    /\ cpc = "done"
    /\ queue = <<>>
    /\ Cardinality(visited) < max_pages_per_domain
    /\ \E i, j \in 1..Len(trace) : i < j /\ trace[i].url \in Range(trace[j].links)

\* C7: links of a page visited at depth max_depth are not enqueued; with
\* max_depth = 0 and a start page that gives a Document, the crawl fetches
\* start_url alone, holds one Document and enqueues nothing.
C7_NoLinksAtMaxDepth ==
    /\ \A i \in 1..Len(trace) : trace[i].depth = max_depth => trace[i].enqueued = 0
    /\ \A i \in 1..Len(queue) : queue[i][2] <= max_depth
    /\ (max_depth = 0 /\ Len(trace) >= 1 /\ trace[1].doc # <<>>) =>
         /\ Len(trace) = 1
         /\ visited = {start_url}
         /\ Len(documents) = 1
         /\ queue = <<>>

\* a start page with two followable anchors, crawled with max_depth = 0
C7_Witness ==
    /\ cpc = "done"
    /\ max_depth = 0
    /\ Len(documents) = 1
    /\ Len(trace[1].links) = MaxLinks

(***************************************************************************)
(* Properties of ingest_documents and _chunk_document                      *)
(***************************************************************************)
\* document j has been through the loop body
Processed(j) == j < doc_index \/ (j = doc_index /\ ipc \in {"loop", "done"})

CallsFor(j) == {k \in 1..Len(upserts) : upserts[k].doc = j}

\* the points of call c carry the whole of text: every character lies in
\* the window of a point whose payload holds it at that place
HoldsAllOf(c, text) ==
    /\ Len(c.points) >= 1
    /\ Len(c.points) = Len(c.windows)
    /\ \A p \in 1..Len(text) :
         \E k \in 1..Len(c.points) :
            /\ c.windows[k] < p
            /\ p <= c.windows[k] + Len(c.points[k].payload.text)
            /\ c.points[k].payload.text[p - c.windows[k]] = text[p]

\* C8: ingest_documents never raises, and every document with a non-empty
\* text whose steps did not raise has all of its chunks upserted, in batch
\* order, whichever other documents failed.
C8_Resilient ==
    /\ ipc # "raised"
    /\ \A j \in 1..Len(in_documents) :
         (Processed(j) /\ j \notin failed /\ in_documents[j].text # <<>>) =>
            /\ Cardinality(CallsFor(j)) = 1
            /\ \A k \in CallsFor(j) : HoldsAllOf(upserts[k], in_documents[j].text)
    /\ \A k, l \in 1..Len(upserts) : k < l => upserts[k].doc < upserts[l].doc

\* three documents, the second failed, the first and third are stored
C8_Witness ==
    /\ ipc = "done"
    /\ Len(in_documents) = 3
    /\ failed = {2}
    /\ {upserts[k].doc : k \in 1..Len(upserts)} = {1, 3}
    /\ Len(upserts[2].points) >= 2

\* the text _chunk_document works on
CurrentText == in_documents[doc_index].text

\* C9: for a non-empty text and 0 <= chunk_overlap < chunk_size, the windows
\* [start, start + chunk_size) of the emitted chunks cover every index of
\* the text, and each chunk's text is the text's slice at its window.
C9_Coverage ==
    (ipc = "embed" /\ 0 <= chunk_overlap /\ chunk_overlap < chunk_size) =>
        /\ Len(windows) = Len(chunks)
        /\ \A p \in 0..(Len(CurrentText) - 1) :
             \E k \in 1..Len(windows) :
                windows[k] <= p /\ p < windows[k] + chunk_size
        /\ \A k \in 1..Len(chunks) :
             /\ windows[k] < Len(CurrentText)
             /\ chunks[k].text =
                  SubSeq(CurrentText, windows[k] + 1,
                         Min(windows[k] + chunk_size, Len(CurrentText)))

\* overlapping windows, the last one clipped by the end of the text
C9_Witness ==
    /\ ipc = "embed"
    /\ chunk_overlap > 0
    /\ Len(chunks) >= 3
    /\ Len(chunks[Len(chunks)].text) < chunk_size

RECURSIVE ConcatTexts(_)
ConcatTexts(chs) == IF chs = <<>> THEN <<>> ELSE chs[1].text \o ConcatTexts(Tail(chs))

\* C10: with chunk_overlap = 0 the chunk texts, joined in chunk_number
\* order, are the document text, and every index lies in exactly one window.
C10_Partition ==
    (ipc = "embed" /\ chunk_overlap = 0) =>
        /\ ConcatTexts(chunks) = CurrentText
        /\ \A k \in 1..Len(chunks) : chunks[k].chunk_number = k - 1
        /\ \A p \in 0..(Len(CurrentText) - 1) :
             Cardinality({k \in 1..Len(windows) :
                            windows[k] <= p /\ p < windows[k] + chunk_size}) = 1

\* several chunks, the text not a multiple of chunk_size
C10_Witness ==
    /\ ipc = "embed"
    /\ chunk_overlap = 0
    /\ chunk_size >= 2
    /\ Len(chunks) >= 2
    /\ Len(CurrentText) % chunk_size # 0
    /\ \E p, q \in 1..Len(CurrentText) : CurrentText[p] # CurrentText[q]

(***************************************************************************)
(* Termination of the chunking loop                                        *)
(***************************************************************************)
\* C11: for a non-empty text the chunking loop ends exactly when
\* chunk_overlap < chunk_size.  Then every turn moves start forward, so the
\* loop takes at most len(text) turns; otherwise start never moves forward,
\* the loop condition start < len(text) stays true and the chunker never
\* returns.  No configuration is turned down before the loop.
C11_TerminatesIffOverlapSmaller ==
    /\ ipc = "chunk" =>
         IF chunk_overlap < chunk_size
         THEN /\ \A i, j \in 1..Len(windows) : i < j => windows[i] < windows[j]
              /\ \A i \in 1..Len(windows) : windows[i] < start
              /\ Len(chunks) <= Len(CurrentText)
         ELSE /\ \A i \in 1..Len(windows) : windows[i] <= 0
              /\ start <= 0
              /\ start < Len(CurrentText)
    /\ ipc \in {"embed", "upsert"} => chunk_overlap < chunk_size
    /\ chunk_overlap >= chunk_size =>
         \A i \in 1..Len(upserts) : in_documents[upserts[i].doc].text = <<>>

\* with chunk_overlap >= chunk_size the loop has taken more turns than the
\* text has characters and is still running
C11_Witness ==
    /\ ipc = "chunk"
    /\ chunk_size >= 1
    /\ chunk_overlap >= chunk_size
    /\ Len(chunks) = MaxChunks
    /\ Len(chunks) > Len(CurrentText)
    /\ start < Len(CurrentText)

(***************************************************************************)
(* The count ingest_documents returns                                      *)
(***************************************************************************)
\* C12: ingest_documents returns len(documents) whatever happened to the
\* documents: a failed or skipped document does not lower the count.  An
\* empty batch returns 0 and makes no embedding and no upsert call.
C12_ReturnsBatchLength ==
    /\ ipc = "done" => result = Len(in_documents)
    /\ ipc # "done" => result = -1
    /\ in_documents = <<>> =>
         /\ ipc \in {"call", "done"}
         /\ embeddings = <<>>
         /\ upserts = <<>>

\* a batch of three returned 3 although one document failed, one had no
\* text and only one was stored
C12_Witness ==
    /\ ipc = "done"
    /\ Len(in_documents) = 3
    /\ result = 3
    /\ failed # {}
    /\ skipped # {}
    /\ Len(upserts) = 1

(***************************************************************************)
(* What a chunk carries                                                    *)
(***************************************************************************)
CurrentDoc == in_documents[doc_index]

\* C17: the chunks of one document are numbered 0, 1, ..., k-1 in the order
\* they are emitted, and each one carries the document's url, title, type
\* and metadata ("text" and {} when the document has no type or metadata
\* key), and the document's structured_data exactly when the document has a
\* non-empty one.
C17_ChunkFields ==
    ipc \in {"chunk", "embed"} =>
        \A k \in 1..Len(chunks) :
            /\ chunks[k].chunk_number = k - 1
            /\ chunks[k].url = CurrentDoc.url
            /\ chunks[k].title = CurrentDoc.title
            /\ chunks[k].type = (IF CurrentDoc.type = "absent" THEN "text"
                                 ELSE CurrentDoc.type)
            /\ chunks[k].metadata = (IF CurrentDoc.metadata = "absent" THEN "{}"
                                     ELSE CurrentDoc.metadata)
            /\ CurrentDoc.structured_data = "tables" =>
                   chunks[k].structured_data = "tables"
            /\ CurrentDoc.structured_data \in {"absent", "empty"} =>
                   chunks[k].structured_data = "absent"

\* a document with type, metadata and structured data was cut into three
\* chunks or more
C17_Witness ==
    /\ ipc = "embed"
    /\ Len(chunks) >= 3
    /\ CurrentDoc.type = "pdf"
    /\ CurrentDoc.metadata = "meta"
    /\ CurrentDoc.structured_data = "tables"
    /\ chunks[3].chunk_number = 2

(***************************************************************************)
(* TableParser.parse_table (parsers/table_parser.py).  A <table> element   *)
(* is its optional <caption>, the element before it, an optional <thead>   *)
(* with its rows, and the rows after it, wrapped in a <tbody> or not.  A   *)
(* row is a list of cells; a cell has a tag, th or td, and a text.  The    *)
(* text of a cell is <<section, row, column>>, so every cell is told from  *)
(* every other; a synthesized "Column i" is <<"Column", i, 0>>.            *)
(***************************************************************************)
Tags == {"th", "td"}

Headings == {"h1", "h2", "h3", "h4", "h5", "h6"}

\* the cells of row r of a section, tagged as tags says
CellsOf(sec, r, tags) ==
    [c \in 1..Len(tags) |-> [tag |-> tags[c], text |-> <<sec, r, c>>]]

\* a row is any list of up to MaxCells th or td cells
RowShapes == SeqsUpTo(Tags, MaxCells)

\* the <caption> child and the previous sibling: each is there or not
CaptionCases ==
    { [caption |-> <<"Cap">>, prev |-> <<>>],
      [caption |-> <<>>, prev |-> <<[name |-> "h2", text |-> "Head"]>>],
      [caption |-> <<>>, prev |-> <<[name |-> "p", text |-> "Para"]>>],
      [caption |-> <<>>, prev |-> <<>>] }

\* a <thead>, when there is one, holds no row or one row
TheadCases ==
    {[has_thead |-> FALSE, thead |-> <<>>], [has_thead |-> TRUE, thead |-> <<>>]}
    \cup {[has_thead |-> TRUE, thead |-> <<CellsOf("head", 1, s)>>] : s \in RowShapes}

BodyCases ==
    {[r \in 1..Len(ss) |-> CellsOf("body", r, ss[r])] : ss \in SeqsUpTo(RowShapes, MaxRows)}

Tables ==
    {[caption |-> cc.caption, prev |-> cc.prev,
      has_thead |-> tc.has_thead, thead |-> tc.thead,
      has_tbody |-> tb, body |-> bd] :
        cc \in CaptionCases, tc \in TheadCases, tb \in BOOLEAN, bd \in BodyCases}

\* table.find_all("tr"): the rows in document order
AllTr(t) == t.thead \o t.body

\* tbody = table.find("tbody") or table; tbody.find_all("tr")
TbodyOrTableRows(t) == IF t.has_tbody THEN t.body ELSE AllTr(t)

\* [cell.get_text(strip=True) for cell in cells]
Texts(cells) == [i \in 1..Len(cells) |-> cells[i].text]

\* row.find_all(tag)
FindAll(row, tag) == SelectSeq(row, LAMBDA c : c.tag = tag)

\* _extract_caption
ExtractCaption(t) ==
    IF t.caption # <<>> THEN t.caption[1]
    ELSE IF t.prev # <<>> /\ t.prev[1].name \in Headings THEN t.prev[1].text
    ELSE "Untitled Table"

\* f"Column {i+1}" for i in range(num_cols)
ColumnNames(num_cols) == [i \in 1..num_cols |-> <<"Column", i, 0>>]

\* _extract_headers: the <thead> row, else the first row, else column names
ExtractHeaders(t) ==
    LET fromThead ==
            IF t.has_thead /\ t.thead # <<>> THEN Texts(t.thead[1]) ELSE <<>>
        fromFirstRow ==
            IF fromThead # <<>> THEN fromThead
            ELSE IF AllTr(t) = <<>> THEN <<>>
            ELSE LET ths == FindAll(AllTr(t)[1], "th")
                 IN  IF ths # <<>> THEN Texts(ths)
                     ELSE Texts(FindAll(AllTr(t)[1], "td"))
    IN  IF fromFirstRow # <<>> THEN fromFirstRow
        ELSE IF TbodyOrTableRows(t) = <<>> THEN <<>>
        ELSE ColumnNames(Len(TbodyOrTableRows(t)[1]))

\* mutant: no row is skipped for its cell count
KeepRowAlways(tr, num_columns) == TRUE

\* if len(cells) != num_columns: continue
KeepRow(tr, num_columns) == Len(tr) = num_columns

\* first_row.find("th"): the first row holds a header-tagged cell
HasTh(row) == \E i \in 1..Len(row) : row[i].tag = "th"

\* _extract_rows
ExtractRows(t, num_columns) ==
    LET all_rows == TbodyOrTableRows(t)
        skip_first == all_rows # <<>> /\ HasTh(all_rows[1])
        candidates == IF skip_first THEN Tail(all_rows) ELSE all_rows
        kept == SelectSeq(candidates, LAMBDA tr : KeepRow(tr, num_columns))
    IN  [i \in 1..Len(kept) |-> Texts(kept[i])]

\* parse_table without a failure: None for no row, else the Table
ParseTable(t) ==
    LET caption == ExtractCaption(t)
        headers == ExtractHeaders(t)
        rows == ExtractRows(t, Len(headers))
    IN  IF rows = <<>> THEN <<>>
        ELSE <<[caption |-> caption, headers |-> headers, rows |-> rows,
                row_count |-> Len(rows), column_count |-> Len(headers)]>>

\* the other operations while the table parser is called
OthersIdleForParser ==
    /\ CrawlIdle
    /\ IngestIdle
    /\ StructIdle
    /\ StoreIdle
    /\ RestIdle

TableInit ==
    /\ OthersIdleForParser
    /\ RateIdle
    /\ table \in Tables
    /\ table_data = <<>>
    /\ tpc = "call"

\* parse_table runs through its try block and returns
ParseTableReturn ==
    /\ tpc = "call"
    /\ table_data' = ParseTable(table)
    /\ tpc' = "done"
    /\ UNCHANGED <<table, rateVars, structVars, storeVars, crawlVars, ingestVars, restVars>>

\* a step inside the try block raises: except Exception: return None
ParseTableFail ==
    /\ tpc = "call"
    /\ table_data' = <<>>
    /\ tpc' = "failed"
    /\ UNCHANGED <<table, rateVars, structVars, storeVars, crawlVars, ingestVars, restVars>>

TableNext == ParseTableReturn \/ ParseTableFail

TableSpec == TableInit /\ [][TableNext]_vars

(***************************************************************************)
(* Properties of parse_table                                               *)
(***************************************************************************)
Rows == IF table_data = <<>> THEN <<>> ELSE table_data[1].rows

\* the table has a <thead> of one row with at least one cell
HasHeaderSection == table.has_thead /\ table.thead # <<>> /\ table.thead[1] # <<>>

HeaderCells == Len(table.thead[1])

\* the texts of the rows after the header section, in document order
DataRowTexts == [r \in 1..Len(table.body) |-> Texts(table.body[r])]

\* C13: for a table with an explicit header section of N cells whose M data
\* rows have N cells each, parse_table gives N headers and exactly the M
\* data rows in document order, with or without a <tbody> and whatever the
\* tags of the data cells; a data row of N-1 or N+1 cells is not in rows.
C13_HeaderSectionRows ==
    (tpc = "done" /\ HasHeaderSection) =>
        /\ (\A r \in 1..Len(table.body) : Len(table.body[r]) = HeaderCells) =>
               /\ Rows = DataRowTexts
               /\ table_data # <<>> => table_data[1].headers = Texts(table.thead[1])
        /\ \A r \in 1..Len(table.body) :
               Len(table.body[r]) \in {HeaderCells - 1, HeaderCells + 1} =>
                   \A i \in 1..Len(Rows) : Rows[i] # DataRowTexts[r]

\* C14: every Table parse_table returns is rectangular: each row has exactly
\* len(headers) cells, row_count = len(rows) >= 1 and column_count =
\* len(headers).  parse_table returns None when no row is recovered or a
\* step fails.
C14_TableWellFormed ==
    /\ table_data # <<>> =>
         /\ \A i \in 1..Len(table_data[1].rows) :
                Len(table_data[1].rows[i]) = Len(table_data[1].headers)
         /\ table_data[1].row_count = Len(table_data[1].rows)
         /\ table_data[1].row_count >= 1
         /\ table_data[1].column_count = Len(table_data[1].headers)
    /\ tpc = "failed" => table_data = <<>>
    /\ (tpc = "done" /\ ExtractRows(table, Len(ExtractHeaders(table))) = <<>>) =>
           table_data = <<>>

\* a Table of two columns was returned for a table one of whose two body
\* rows had another number of cells
C14_Witness ==
    /\ tpc = "done"
    /\ table_data # <<>>
    /\ table_data[1].column_count = 2
    /\ table_data[1].row_count = 1
    /\ Len(table.body) = 2
    /\ \E r \in 1..2 : Len(table.body[r]) = 3
    /\ ~HasTh(table.body[1])

\* C20: when the table has no header section and no cell of its first row
\* is header-tagged, the headers are the synthesized "Column 1" .. "Column N"
\* and the first row is in rows as data.
C20_SynthesizedHeaders ==
    (/\ tpc = "done"
     /\ ~table.has_thead
     /\ table.body # <<>>
     /\ table.body[1] # <<>>
     /\ ~HasTh(table.body[1])) =>
        /\ table_data # <<>>
        /\ table_data[1].headers = ColumnNames(Len(table.body[1]))
        /\ table_data[1].rows[1] = Texts(table.body[1])

(***************************************************************************)
(* Rate tables (parsers/table_parser.py).  A caption, a header or a cell   *)
(* is a string, written as its sequence of characters.                     *)
(***************************************************************************)
UpperCase ==
    <<"A", "B", "C", "D", "E", "F", "G", "H", "I", "J", "K", "L", "M",
      "N", "O", "P", "Q", "R", "S", "T", "U", "V", "W", "X", "Y", "Z">>

LowerCase ==
    <<"a", "b", "c", "d", "e", "f", "g", "h", "i", "j", "k", "l", "m",
      "n", "o", "p", "q", "r", "s", "t", "u", "v", "w", "x", "y", "z">>

\* str.lower()
Lower(s) ==
    [k \in 1..Len(s) |->
        IF \E n \in 1..Len(UpperCase) : UpperCase[n] = s[k]
        THEN LowerCase[CHOOSE n \in 1..Len(UpperCase) : UpperCase[n] = s[k]]
        ELSE s[k]]

\* term in s
Contains(term, s) ==
    \E k \in 0..(Len(s) - Len(term)) : SubSeq(s, k + 1, k + Len(term)) = term

RECURSIVE Join(_)
\* " ".join(strings)
Join(strings) ==
    IF strings = <<>> THEN <<>>
    ELSE IF Len(strings) = 1 THEN strings[1]
    ELSE strings[1] \o <<" ">> \o Join(Tail(strings))

\* the terms looked for in the caption
CaptionTerms ==
    { <<"r", "a", "t", "e">>,
      <<"p", "r", "i", "c", "e">>,
      <<"c", "o", "s", "t">>,
      <<"f", "e", "e">> }

\* the terms looked for in the joined headers
HeaderTerms ==
    { <<"r", "a", "t", "e">>,
      <<"p", "r", "i", "c", "e">>,
      <<"a", "m", "o", "u", "n", "t">>,
      <<"c", "o", "s", "t">> }

\* the terms that make a header the location column
LocationTerms ==
    { <<"l", "o", "c", "a", "t", "i", "o", "n">>,
      <<"c", "i", "t", "y">>,
      <<"p", "l", "a", "c", "e">>,
      <<"d", "e", "s", "t", "i", "n", "a", "t", "i", "o", "n">> }

\* the terms that make a header the rate column
RateColumnTerms ==
    { <<"r", "a", "t", "e">>,
      <<"a", "m", "o", "u", "n", "t">>,
      <<"p", "r", "i", "c", "e">>,
      <<"p", "e", "r", " ", "d", "i", "e", "m">>,
      <<"d", "a", "i", "l", "y">> }

\* captions and headers tried for detect_rate_table
DetectCaptions ==
    { <<"R", "a", "t", "e", "s">>,
      <<"P", "R", "I", "C", "E", " ", "l", "i", "s", "t">>,
      <<"C", "o", "s", "t">>,
      <<"F", "e", "e", " ", "s", "c", "h", "e", "d", "u", "l", "e">>,
      <<"A", "m", "o", "u", "n", "t", " ", "d", "u", "e">>,
      <<"S", "t", "a", "f", "f">>,
      <<"U", "n", "t", "i", "t", "l", "e", "d", " ", "T", "a", "b", "l", "e">>,
      <<>> }

DetectHeaders ==
    { <<"R", "a", "t", "e">>,
      <<"P", "r", "i", "c", "e">>,
      <<"A", "m", "o", "u", "n", "t">>,
      <<"C", "O", "S", "T">>,
      <<"F", "e", "e">>,
      <<"C", "i", "t", "y">>,
      <<"N", "a", "m", "e">>,
      <<"S", "e", "p", "a", "r", "a", "t", "e">> }

\* captions and headers tried for extract_location_rates
LocCaptions ==
    { <<"P", "e", "r", " ", "D", "i", "e", "m", " ", "R", "a", "t", "e", "s">>,
      <<"U", "n", "t", "i", "t", "l", "e", "d", " ", "T", "a", "b", "l", "e">> }

LocHeaders ==
    { <<"C", "i", "t", "y">>,
      <<"L", "o", "c", "a", "t", "i", "o", "n">>,
      <<"D", "a", "i", "l", "y", " ", "R", "a", "t", "e">>,
      <<"P", "e", "r", " ", "D", "i", "e", "m">>,
      <<"A", "m", "o", "u", "n", "t">>,
      <<"N", "a", "m", "e">> }

\* the rows of a parsed Table of w columns: up to MaxRateRows rows, w cells each
RowsOfWidth(w) == UNION {[1..n -> [1..w -> {0, 1}]] : n \in 1..MaxRateRows}

\* row r, its cell c empty where marks[c] = 0 and a text of its own elsewhere
FillRow(r, marks) ==
    [c \in 1..Len(marks) |-> IF marks[c] = 1 THEN <<"v", r, c>> ELSE <<>>]

\* the Tables handed to detect_rate_table: any caption over any headers
DetectTables ==
    {[caption |-> cap, headers |-> hs,
      rows |-> <<[c \in 1..Len(hs) |-> <<"v", 1, c>>]>>] :
        cap \in DetectCaptions, hs \in SeqsUpTo(DetectHeaders, MaxHeaders)}

\* a Table handed to extract_location_rates: headers may repeat, a cell may
\* be empty, every row has len(headers) cells
LocTable(cap, hs, ms) ==
    [caption |-> cap, headers |-> hs,
     rows |-> [r \in 1..Len(ms) |-> FillRow(r, ms[r])]]

\* table_to_records: one dict per row, keyed by header; of two columns with
\* the same header the later one is kept
TableToRecords(td) ==
    [r \in 1..Len(td.rows) |->
        [h \in Range(td.headers) |->
            LET cols == {i \in 1..Len(td.rows[r]) :
                            i <= Len(td.headers) /\ td.headers[i] = h}
            IN  td.rows[r][CHOOSE i \in cols : \A j \in cols : j <= i]]]

\* detect_rate_table
DetectRateTable(td) ==
    LET caption == Lower(td.caption)
        headers == [i \in 1..Len(td.headers) |-> Lower(td.headers[i])]
    IN  IF \E term \in CaptionTerms : Contains(term, caption) THEN TRUE
        ELSE IF \E term \in HeaderTerms : Contains(term, Join(headers)) THEN TRUE
        ELSE FALSE

\* the indices of the headers that hold one of terms, lowercased
Matching(td, terms) ==
    {i \in 1..Len(td.headers) :
        \E term \in terms : Contains(term, Lower(td.headers[i]))}

\* for i, header in enumerate(headers): ... break
FirstOf(cols) == CHOOSE i \in cols : \A j \in cols : i <= j

\* record.get(header_list[col]) on the record of row r
Lookup(td, r, col) == TableToRecords(td)[r][td.headers[col]]

\* extract_location_rates
ExtractLocationRates(td) ==
    LET locs == Matching(td, LocationTerms)
        rates == Matching(td, RateColumnTerms)
    IN  IF locs = {} \/ rates = {} THEN <<>>
        ELSE LET location_col == FirstOf(locs)
                 rate_col == FirstOf(rates)
                 hits == SelectSeq([r \in 1..Len(td.rows) |-> r],
                             LAMBDA r : /\ Lookup(td, r, location_col) # <<>>
                                        /\ Lookup(td, r, rate_col) # <<>>)
             IN  [k \in 1..Len(hits) |->
                    [location |-> Lookup(td, hits[k], location_col),
                     rate |-> Lookup(td, hits[k], rate_col),
                     type |-> "location_rate",
                     source_table |-> td.caption]]

\* the other operations while a rate function is called
OthersIdleForRates ==
    /\ OthersIdleForParser
    /\ TableIdle

\* the state at the call of a rate function
RateCall ==
    /\ OthersIdleForRates
    /\ detected = FALSE
    /\ location_rates = <<>>
    /\ rpc = "call"

DetectInit ==
    /\ RateCall
    /\ rate_table \in DetectTables

LocInit ==
    /\ RateCall
    /\ \E cap \in LocCaptions, hs \in SeqsUpTo(LocHeaders, MaxHeaders) :
          \E ms \in RowsOfWidth(Len(hs)) : rate_table = LocTable(cap, hs, ms)

\* detect_rate_table(table_data) is called and returns
DetectCall ==
    /\ rpc = "call"
    /\ detected' = DetectRateTable(rate_table)
    /\ rpc' = "detected"
    /\ UNCHANGED <<rate_table, location_rates>>
    /\ UNCHANGED <<tableVars, structVars, storeVars, crawlVars, ingestVars, restVars>>

\* extract_location_rates(table_data) is called and returns
ExtractCall ==
    /\ rpc = "call"
    /\ location_rates' = ExtractLocationRates(rate_table)
    /\ rpc' = "extracted"
    /\ UNCHANGED <<rate_table, detected>>
    /\ UNCHANGED <<tableVars, structVars, storeVars, crawlVars, ingestVars, restVars>>

RateNext == DetectCall \/ ExtractCall

DetectSpec == DetectInit /\ [][RateNext]_vars

LocSpec == LocInit /\ [][RateNext]_vars

(***************************************************************************)
(* Properties of the rate functions                                        *)
(***************************************************************************)
\* the five terms the caption and the headers are said to share
FiveTerms == CaptionTerms \cup HeaderTerms

\* C15: detect_rate_table returns true exactly when the caption or at least
\* one header contains, whatever the case, one of rate, price, cost, fee,
\* amount; the same five terms apply to the caption and to the headers.
C15_DetectIffTerm ==
    rpc = "detected" =>
        (detected <=>
            \E term \in FiveTerms :
                \/ Contains(term, Lower(rate_table.caption))
                \/ \E i \in 1..Len(rate_table.headers) :
                       Contains(term, Lower(rate_table.headers[i])))

\* C16: extract_location_rates gives the empty list when no header is a
\* location header or none is a rate header; otherwise, L and R being the
\* first such headers, it gives in row order one record {location: row[L],
\* rate: row[R], type: "location_rate", source_table: caption} for each row
\* whose cells at L and R are both non-empty -- header names may repeat.
C16_LocationRatesByPosition ==
    rpc = "extracted" =>
        LET td == rate_table
            locs == Matching(td, LocationTerms)
            rates == Matching(td, RateColumnTerms)
        IN  IF locs = {} \/ rates = {} THEN location_rates = <<>>
            ELSE LET L == FirstOf(locs)
                     R == FirstOf(rates)
                     good == SelectSeq([r \in 1..Len(td.rows) |-> r],
                                 LAMBDA r : td.rows[r][L] # <<>> /\ td.rows[r][R] # <<>>)
                 IN  location_rates =
                         [k \in 1..Len(good) |->
                            [location |-> td.rows[good[k]][L],
                             rate |-> td.rows[good[k]][R],
                             type |-> "location_rate",
                             source_table |-> td.caption]]

(***************************************************************************)
(* DocumentIngestor.ingest_structured_data (ingest.py).  A record is a     *)
(* dict: the list of its [key, value] items in insertion order, the keys   *)
(* distinct.  A value is [kind, v]: kind "str" for a scalar, "list" for a  *)
(* value that is no str, int or float; the payload adds the kinds "text"   *)
(* (a synthesized line, v its pieces), "dtype" and "record".               *)
(***************************************************************************)
RecordKeys == {"location", "rate", "text", "type", "structured_data"}

RecordValues == {[kind |-> "str", v |-> "val"], [kind |-> "list", v |-> "val"]}

Keys(record) == {record[i].key : i \in 1..Len(record)}

\* the records tried: up to MaxKeys items under distinct keys
Records ==
    {rec \in SeqsUpTo({[key |-> k, value |-> x] : k \in RecordKeys, x \in RecordValues},
                      MaxKeys) :
        \A i, j \in 1..Len(rec) : i # j => rec[i].key # rec[j].key}

\* record[key]
ValueOf(record, key) ==
    record[CHOOSE i \in 1..Len(record) : record[i].key = key].value

RECURSIVE JoinParts(_)
\* " | ".join(parts)
JoinParts(parts) ==
    IF parts = <<>> THEN <<>>
    ELSE IF Len(parts) = 1 THEN parts[1]
    ELSE parts[1] \o <<" | ">> \o JoinParts(Tail(parts))

\* _record_to_text: f"{key}: {value}" for the scalar values, joined by " | "
RecordToText(record) ==
    LET scalars == SelectSeq(record, LAMBDA item : item.value.kind = "str")
    IN  JoinParts([i \in 1..Len(scalars) |->
                      <<scalars[i].key, ": ", scalars[i].value.v>>])

\* {"text": text, "type": data_type, "structured_data": record, **record}:
\* the keys of the record come last and win
Payload(text, data_type, record) ==
    LET base == [k \in {"text", "type", "structured_data"} |->
                    CASE k = "text" -> [kind |-> "text", v |-> text]
                      [] k = "type" -> [kind |-> "dtype", v |-> data_type]
                      [] k = "structured_data" -> [kind |-> "record", v |-> record]]
    IN  [k \in DOMAIN base \cup Keys(record) |->
            IF k \in Keys(record) THEN ValueOf(record, k) ELSE base[k]]

\* the PointStruct of one record
StructPoint(record, data_type) ==
    [vector |-> GenerateEmbeddings(<<RecordToText(record)>>)[1],
     payload |-> Payload(RecordToText(record), data_type, record)]

\* the other operations while ingest_structured_data is called
OthersIdleForStruct ==
    /\ CrawlIdle
    /\ IngestIdle
    /\ TableIdle
    /\ RateIdle
    /\ StoreIdle
    /\ RestIdle

StructInit ==
    /\ OthersIdleForStruct
    /\ sd_data \in SeqsUpTo(Records, MaxRecords)
    /\ sd_index = 0
    /\ sd_points = <<>>
    /\ sd_result = -1
    /\ sd_upserts = <<>>
    /\ spc = "loop"

\* mutant: each point is upserted as soon as it is built
UpsertsPerRecord(calls, point) == Append(calls, <<point>>)

\* the upsert calls after one turn of the loop: the turn makes none
UpsertsInLoop(calls, point) == calls

\* one turn of for record in data: text, embedding, point
StructStep ==
    /\ spc = "loop"
    /\ sd_index < Len(sd_data)
    /\ sd_points' = Append(sd_points, StructPoint(sd_data[sd_index + 1], "structured"))
    /\ sd_index' = sd_index + 1
    /\ sd_upserts' = UpsertsInLoop(sd_upserts, StructPoint(sd_data[sd_index + 1], "structured"))
    /\ UNCHANGED <<sd_data, sd_result, spc>>
    /\ UNCHANGED <<tableVars, rateVars, storeVars, crawlVars, ingestVars, restVars>>

\* after the loop: one upsert of all the points, return len(data)
StructUpsert ==
    /\ spc = "loop"
    /\ sd_index = Len(sd_data)
    /\ sd_upserts' = Append(sd_upserts, sd_points)
    /\ sd_result' = Len(sd_data)
    /\ spc' = "done"
    /\ UNCHANGED <<sd_data, sd_index, sd_points>>
    /\ UNCHANGED <<tableVars, rateVars, storeVars, crawlVars, ingestVars, restVars>>

\* the embedding of the next record or the upsert raises: nothing catches
\* it, the call ends with the exception and nothing was stored
StructRaise ==
    /\ spc = "loop"
    /\ spc' = "raised"
    /\ UNCHANGED <<sd_data, sd_index, sd_points, sd_result, sd_upserts>>
    /\ UNCHANGED <<tableVars, rateVars, storeVars, crawlVars, ingestVars, restVars>>

StructNext == StructStep \/ StructUpsert \/ StructRaise

StructSpec == StructInit /\ [][StructNext]_vars

(***************************************************************************)
(* Properties of ingest_structured_data                                    *)
(***************************************************************************)
\* C18: for every record, also one that has a key named text, type or
\* structured_data, the payload of its point has structured_data equal to
\* the record and text equal to the synthesized "key: value | ..." line.
C18_PayloadKeepsRecord ==
    \A k \in 1..Len(sd_points) :
        LET payload == sd_points[k].payload
        IN  /\ payload["structured_data"].kind = "record"
            /\ payload["structured_data"].v = sd_data[k]
            /\ payload["text"].kind = "text"
            /\ payload["text"].v = RecordToText(sd_data[k])

(***************************************************************************)
(* The collection lifecycle: _ensure_collection and reset_collection       *)
(* (ingest.py).  Each store call of an operation may fail; fail names the  *)
(* call that does: "none", "get" (get_collections), "create"               *)
(* (create_collection) or "delete" (delete_collection).                    *)
(***************************************************************************)
\* mutant: the collection is created whether or not it is there
NeedsCreateAlways(coll) == TRUE

\* if self.collection_name not in collection_names
NeedsCreate(coll) == ~coll.exists

\* except Exception as e: logger.error(...); raise
OnStoreError == "raised"

\* _ensure_collection on the collection coll: the collection it leaves,
\* whether it created one, and how it ended
EnsureCollection(coll, fail) ==
    IF fail = "get"
    THEN [collection |-> coll, created |-> FALSE, outcome |-> OnStoreError]
    ELSE IF NeedsCreate(coll)
         THEN IF fail = "create"
              THEN [collection |-> coll, created |-> FALSE, outcome |-> OnStoreError]
              ELSE [collection |-> Collection(TRUE, 0), created |-> TRUE,
                    outcome |-> "returned"]
         ELSE [collection |-> coll, created |-> FALSE, outcome |-> "returned"]

\* reset_collection: delete_collection, then _ensure_collection
ResetCollection(coll, fail) ==
    IF fail = "delete"
    THEN [collection |-> coll, created |-> FALSE, outcome |-> OnStoreError]
    ELSE EnsureCollection(Collection(FALSE, 0), fail)

\* the other operations while the lifecycle calls are made
OthersIdleForStore ==
    /\ CrawlIdle
    /\ IngestIdle
    /\ TableIdle
    /\ RateIdle
    /\ StructIdle
    /\ RestIdle

StoreInit ==
    /\ OthersIdleForStore
    /\ collection \in {Collection(FALSE, 0), Collection(TRUE, 0)}
    /\ lc_last = NoCall
    /\ lc_calls = 0

\* self._ensure_collection() is called
EnsureCall ==
    /\ lc_calls < MaxCalls
    /\ \E fail \in {"none", "get", "create"} :
         LET r == EnsureCollection(collection, fail)
         IN  /\ collection' = r.collection
             /\ lc_last' = LifecycleCall("ensure", fail, collection, r.collection,
                                          r.created, r.outcome)
    /\ lc_calls' = lc_calls + 1
    /\ UNCHANGED <<tableVars, rateVars, structVars, crawlVars, ingestVars, restVars>>

\* reset_collection() is called
ResetCall ==
    /\ lc_calls < MaxCalls
    /\ \E fail \in {"none", "get", "create", "delete"} :
         LET r == ResetCollection(collection, fail)
         IN  /\ collection' = r.collection
             /\ lc_last' = LifecycleCall("reset", fail, collection, r.collection,
                                          r.created, r.outcome)
    /\ lc_calls' = lc_calls + 1
    /\ UNCHANGED <<tableVars, rateVars, structVars, crawlVars, ingestVars, restVars>>

\* an upsert by an ingestion adds a point to the collection
StorePoint ==
    /\ collection.exists
    /\ collection.points < MaxPoints
    /\ collection' = Collection(TRUE, collection.points + 1)
    /\ UNCHANGED <<lc_last, lc_calls>>
    /\ UNCHANGED <<tableVars, rateVars, structVars, crawlVars, ingestVars, restVars>>

StoreNext == EnsureCall \/ ResetCall \/ StorePoint

StoreSpec == StoreInit /\ [][StoreNext]_vars

(***************************************************************************)
(* Properties of the collection lifecycle                                  *)
(***************************************************************************)
\* a store call of the last operation failed: the failing call was made
StoreErrorMet ==
    \/ lc_last.fail = "get"
    \/ lc_last.fail = "delete" /\ lc_last.op = "reset"
    \/ lc_last.fail = "create" /\ (lc_last.op = "reset" \/ ~lc_last.before.exists)

\* C19: ensure-exists creates the collection only when it was absent; on a
\* collection that is there it creates nothing and leaves its points as they
\* were, so a second call changes nothing.  A reset that returns leaves the
\* collection there with no point.  A store error met by either operation is
\* raised to the caller, and nothing else is.
C19_Lifecycle ==
    /\ lc_last.op = "ensure" =>
         /\ lc_last.created <=> (~lc_last.before.exists /\ lc_last.outcome = "returned")
         /\ lc_last.before.exists => lc_last.after = lc_last.before
         /\ lc_last.outcome = "returned" => lc_last.after.exists
    /\ (lc_last.op = "reset" /\ lc_last.outcome = "returned") =>
         /\ lc_last.created
         /\ lc_last.after = Collection(TRUE, 0)
    /\ lc_last.op # "none" => (lc_last.outcome = "raised" <=> StoreErrorMet)

\* an ensure-exists call on a collection that held two points returned and
\* left them, after an earlier lifecycle call
C19_Witness ==
    /\ lc_last.op = "ensure"
    /\ lc_last.outcome = "returned"
    /\ lc_last.before.exists
    /\ lc_last.before.points = 2
    /\ collection.points = 2
    /\ lc_calls >= 2

(***************************************************************************)
(* The upsert of one document                                              *)
(***************************************************************************)
\* call c holds one point per chunk of text: point k is the chunk at window
\* k, numbered k - 1, with the embedding of that chunk's text
OnePointPerChunk(c, text) ==
    /\ Len(c.points) = Len(c.windows)
    /\ \A k \in 1..Len(c.points) :
         /\ c.points[k].payload.chunk_number = k - 1
         /\ c.points[k].payload.text = PySlice(text, c.windows[k], c.windows[k] + chunk_size)
         /\ c.points[k].vector = Encode(c.points[k].payload.text)
    /\ \A k \in 1..(Len(c.windows) - 1) : c.windows[k + 1] = NextStart(c.windows[k])
    /\ c.windows[1] = 0
    /\ NextStart(c.windows[Len(c.windows)]) >= Len(text)

\* what holds in every state: at most one upsert per document, one point per
\* chunk, none for a skipped or failed document, none before the embeddings
C21_State ==
    /\ \A j \in 1..Len(in_documents) :
         /\ Cardinality(CallsFor(j)) <= 1
         /\ \A k \in CallsFor(j) : OnePointPerChunk(upserts[k], in_documents[j].text)
         /\ in_documents[j].text = <<>> => CallsFor(j) = {}
         /\ j \in failed => CallsFor(j) = {}
         /\ j > doc_index => CallsFor(j) = {}
    /\ ipc \in {"chunk", "embed", "upsert"} => CallsFor(doc_index) = {}
    /\ ipc = "upsert" =>
         embeddings = [k \in 1..Len(chunks) |-> Encode(chunks[k].text)]

\* what holds of every step: embeddings are asked for only in the embedding
\* step of a document that has chunks, and an upsert is made only with the
\* embeddings of all the chunks at hand
C21_Step ==
    /\ embeddings' # embeddings => (ipc = "embed" /\ chunks # <<>>)
    /\ upserts' # upserts =>
         /\ ipc = "upsert"
         /\ Len(embeddings) = Len(chunks)
         /\ Len(upserts') = Len(upserts) + 1

\* C21: ingest_documents makes at most one upsert call per document, with
\* exactly one point per chunk (payload the chunk, vector the embedding at
\* the same position), and only after the embeddings of all its chunks were
\* obtained; a document with empty text gets no embedding and no upsert; a
\* document whose step failed has no chunk upserted.
C21_OneUpsertPerDocument == []C21_State /\ [][C21_Step]_vars

\* the first document had no text, the second failed after it was chunked,
\* the third was stored in one call of three points or more
C21_Witness ==
    /\ ipc = "done"
    /\ Len(in_documents) = 3
    /\ in_documents[1].text = <<>>
    /\ in_documents[2].text # <<>>
    /\ failed = {2}
    /\ Len(upserts) = 1
    /\ upserts[1].doc = 3
    /\ Len(upserts[1].points) >= 3

(***************************************************************************)
(* _crawl_page on its own (crawler.py:130-173): one GET, then the dispatch *)
(* on the Content-Type header.  The header is a list of characters, as the *)
(* server wrote it; the code lowers it and looks for substrings.           *)
(***************************************************************************)
TextHtml == <<"t", "e", "x", "t", "/", "h", "t", "m", "l">>

Application == <<"a", "p", "p", "l", "i", "c", "a", "t", "i", "o", "n", "/">>

ApplicationPdf == Application \o <<"p", "d", "f">>

\* ["word", "excel", "spreadsheet"]
DocumentTerms ==
    { <<"w", "o", "r", "d">>,
      <<"e", "x", "c", "e", "l">>,
      <<"s", "p", "r", "e", "a", "d", "s", "h", "e", "e", "t">> }

\* Content-Type headers of HTML pages
HtmlHeaders ==
    { TextHtml,
      <<"T", "e", "x", "t", "/", "H", "T", "M", "L", ";", " ", "c", "h", "a",
        "r", "s", "e", "t", "=", "U", "T", "F", "-", "8">> }

\* Content-Type headers of PDF files
PdfHeaders == { ApplicationPdf, <<"A", "p", "p", "l", "i", "c", "a", "t", "i", "o", "n", "/", "P", "D", "F">> }

\* Content-Type headers of Word and Excel files
OfficeHeaders ==
    { Application \o <<"m", "s", "w", "o", "r", "d">>,
      Application \o <<"v", "n", "d", ".", "m", "s", "-", "e", "x", "c", "e", "l">> }

\* other headers; the empty one is a response without Content-Type
OtherHeaders ==
    { <<>>,
      <<"i", "m", "a", "g", "e", "/", "p", "n", "g">>,
      Application \o <<"j", "s", "o", "n">> }

ContentTypes == HtmlHeaders \cup PdfHeaders \cup OfficeHeaders \cup OtherHeaders

\* the pages _crawl_page is called for
PageURLs == { Url("http", "A", "", <<>>), Url("http", "B", "", <<"a">>) }

\* a response with its header written out
HeaderResponse(st, ct, pa, le, an) ==
    [status |-> st, content_type |-> ct, parsed |-> pa, linkerr |-> le,
     anchors |-> an]

\* what the format parsers and the anchor scan see of the response
Body(resp) == Response("ok", "body", resp.parsed, resp.linkerr, resp.anchors)

\* mutant: the two inclusion flags are not consulted
CrawlPageHeaderNoFlags(url, resp) ==
    IF resp.status # "ok" THEN [doc |-> <<>>, links |-> <<>>]
    ELSE LET content_type == Lower(resp.content_type)
         IN  IF Contains(TextHtml, content_type)
             THEN IF resp.linkerr THEN [doc |-> <<>>, links |-> <<>>]
                  ELSE ParseHtml(url, Body(resp))
             ELSE IF Contains(ApplicationPdf, content_type)
             THEN [doc |-> Parse(url, Body(resp), "pdf"), links |-> <<>>]
             ELSE IF \E t \in DocumentTerms : Contains(t, content_type)
             THEN [doc |-> Parse(url, Body(resp), "docx"), links |-> <<>>]
             ELSE [doc |-> <<>>, links |-> <<>>]

\* _crawl_page, with the header as the server wrote it
CrawlPageHeader(url, resp) ==
    IF resp.status # "ok" THEN [doc |-> <<>>, links |-> <<>>]
    ELSE LET content_type == Lower(resp.content_type)
         IN  IF Contains(TextHtml, content_type)
             THEN IF resp.linkerr THEN [doc |-> <<>>, links |-> <<>>]
                  ELSE ParseHtml(url, Body(resp))
             ELSE IF Contains(ApplicationPdf, content_type) /\ include_pdf
             THEN [doc |-> Parse(url, Body(resp), "pdf"), links |-> <<>>]
             ELSE IF include_docs /\ \E t \in DocumentTerms : Contains(t, content_type)
             THEN [doc |-> Parse(url, Body(resp), "docx"), links |-> <<>>]
             ELSE [doc |-> <<>>, links |-> <<>>]

\* a crawler with any setting of the two flags, about to fetch one page
FetchInit ==
    /\ IngestIdle
    /\ TableIdle /\ RateIdle /\ StructIdle /\ StoreIdle /\ WorkerIdle /\ OrchIdle
    /\ max_pages_per_domain = 0
    /\ max_depth = 0
    /\ include_pdf \in BOOLEAN
    /\ include_docs \in BOOLEAN
    /\ start_url \in StartURLs
    /\ visited = {}
    /\ documents = <<>>
    /\ queue = <<>>
    /\ cpc = "idle"
    /\ trace = <<>>
    /\ rejected = {}
    /\ page_url \in PageURLs
    /\ \E st \in {"ok", "error"}, ct \in ContentTypes, pa \in BOOLEAN,
          le \in BOOLEAN, an \in SeqsUpTo(URLS, MaxLinks) :
            response = HeaderResponse(st, ct, pa, le, an)
    /\ page_result = [doc |-> <<>>, links |-> <<>>]
    /\ fpc = "call"

\* the call returns
CrawlPageReturn ==
    /\ fpc = "call"
    /\ page_result' = CrawlPageHeader(page_url, response)
    /\ fpc' = "done"
    /\ UNCHANGED <<page_url, response>>
    /\ UNCHANGED <<crawlVars, ingestVars, tableVars, rateVars, structVars, storeVars,
                   workerVars, orchVars>>

FetchNext == CrawlPageReturn

FetchSpec == FetchInit /\ [][FetchNext]_vars

\* what a call gives that fetches nothing
NoPage == [doc |-> <<>>, links |-> <<>>]

\* the Document a format parser gives for the response: one of the given
\* type when it builds one, none when it does not
ParserDocument(type) ==
    IF response.parsed THEN <<[url |-> page_url, type |-> type]>> ELSE <<>>

\* the anchors of the page that pass the link filter, in document order
FilteredAnchors ==
    SelectSeq(response.anchors, LAMBDA link : ShouldFollowLink(link, page_url))

\* C22: the result of a fetch that got a 2xx response and ran through without
\* an exception is fixed by the declared content type and the two flags:
\* text/html gives the HTML parser's Document and the filtered anchors,
\* application/pdf gives the PDF parser's Document when include_pdf is set,
\* a Word/Excel type gives the document parser's Document when include_docs
\* is set, everything else gives (None, []); only text/html yields links
C22_DispatchByContentType ==
    (fpc = "done" /\ response.status = "ok" /\ ~response.linkerr) =>
        /\ response.content_type \in HtmlHeaders =>
              /\ page_result.doc = ParserDocument("html")
              /\ page_result.links = FilteredAnchors
        /\ response.content_type \in PdfHeaders =>
              page_result = IF include_pdf
                            THEN [doc |-> ParserDocument("pdf"), links |-> <<>>]
                            ELSE NoPage
        /\ response.content_type \in OfficeHeaders =>
              page_result = IF include_docs
                            THEN [doc |-> ParserDocument("docx"), links |-> <<>>]
                            ELSE NoPage
        /\ response.content_type \in OtherHeaders => page_result = NoPage
        /\ page_result.links # <<>> => response.content_type \in HtmlHeaders

\* a PDF fetched with PDF ingestion off gives nothing although the parser
\* would have built a Document, while document ingestion is on
C22_Witness ==
    /\ fpc = "done"
    /\ response.status = "ok"
    /\ response.content_type \in PdfHeaders
    /\ response.parsed
    /\ ~include_pdf
    /\ include_docs
    /\ page_result = NoPage

(***************************************************************************)
(* A crawl of a site whose pages link to files, fragments, other schemes   *)
(* and other hosts, with PDF ingestion on or off (crawler.py:95-131,       *)
(* 194-200, 220-257).                                                      *)
(***************************************************************************)
SiteURLS ==
    { Url("http", "A", "", <<"a">>),
      Url("https", "A", "", <<"b">>),
      Url("http", "A", "", <<"x", ".pdf">>),
      Url("http", "A", "", <<"a", "#">>),
      Url("http", "A", "", <<"download">>),
      Url("ftp", "A", "", <<"a">>),
      Url("http", "B", "", <<"a">>) }

\* every page is HTML and parses; its anchors are any of the site's URLs
SiteResponses ==
    { Response("ok", "html", TRUE, FALSE, an) : an \in SeqsUpTo(SiteURLS, MaxLinks) }

FollowInit ==
    /\ IngestIdle
    /\ AuxIdle
    /\ max_pages_per_domain \in 1..MaxPagesBound
    /\ max_depth \in 1..MaxDepthBound
    /\ include_pdf \in BOOLEAN
    /\ include_docs = FALSE
    /\ start_url \in StartURLs
    /\ visited = {}
    /\ documents = <<>>
    /\ queue = <<<<start_url, 0>>>>
    /\ cpc = "loop"
    /\ trace = <<>>
    /\ rejected = {}

\* against the responses of the site
VisitSite == VisitWith(SiteResponses)

FollowNext == Skip \/ VisitSite \/ Return

FollowSpec == FollowInit /\ [][FollowNext]_vars

\* the last segment of the URL's path, "" when the path is empty
Ending(url) == IF url.path = <<>> THEN "" ELSE url.path[Len(url.path)]

\* the queue entries that link following put there
Followed == { k \in 1..Len(queue) : queue[k] # <<start_url, 0>> }

\* the fetched pages a queue entry can come from: those one level above it
\* that returned the link
FoundOn(entry) ==
    { i \in 1..Len(trace) :
        /\ trace[i].depth + 1 = entry[2]
        /\ \E n \in 1..Len(trace[i].links) : trace[i].links[n] = entry[1] }

C24_State == \A i, j \in 1..Len(trace) : i # j => trace[i].url # trace[j].url

\* an iteration that finds a visited URL at the head of the queue removes
\* that entry and does nothing else
C24_Step ==
    (cpc = "loop" /\ LoopCond /\ Head(queue)[1] \in visited) =>
        /\ queue' = Tail(queue)
        /\ visited' = visited
        /\ documents' = documents
        /\ trace' = trace

\* C24: every URL is fetched at most once, although the queue may hold it
\* several times; an entry popped for a URL already visited is dropped with
\* no fetch and no change to visited or to the Documents
C24_FetchedOnce == []C24_State /\ [][C24_Step]_vars

\* a page linked twice to the same URL, both entries were queued, the URL
\* was fetched once and the crawl ran the queue dry
C24_Witness ==
    /\ cpc = "done"
    /\ queue = <<>>
    /\ Len(trace) = 2
    /\ trace[1].enqueued = 2
    /\ Len(trace[1].links) = 2
    /\ trace[1].links[1] = trace[1].links[2]
    /\ trace[2].url = trace[1].links[1]
    /\ Cardinality(visited) < max_pages_per_domain

\* the visits that gave no Document
Docless == { i \in 1..Len(trace) : trace[i].doc = <<>> }

\* every fetched URL is in visited whatever came of the fetch, a URL that
\* gave no Document holds its place in visited and is fetched that once
\* only, and the Documents are no more than the visited URLs, which are no
\* more than max_pages_per_domain
C25_State ==
    /\ \A i \in 1..Len(trace) : trace[i].url \in visited
    /\ \A i \in Docless : \A j \in 1..Len(trace) : j # i => trace[j].url # trace[i].url
    /\ Cardinality(visited) = Cardinality(TraceUrls)
    /\ Len(documents) <= Cardinality(visited)
    /\ Cardinality(visited) <= max_pages_per_domain
    /\ \A i \in 1..Len(documents) : documents[i].url \in visited

\* no URL leaves visited, and a fetch is of a URL that enters visited at
\* that iteration
C25_Step ==
    /\ visited \subseteq visited'
    /\ trace' # trace =>
          /\ Len(trace') = Len(trace) + 1
          /\ trace'[Len(trace')].url \in visited' \ visited

\* C25: a URL is put in visited before its fetch and stays there whatever
\* the outcome, so a URL that failed or gave no Document still takes one of
\* the max_pages_per_domain places and is not fetched again; in every state
\* |documents| <= |visited| <= max_pages_per_domain and the URL of every
\* Document is in visited
C25_VisitedBeforeFetch == []C25_State /\ [][C25_Step]_vars

\* the cap of two was used up by a failed fetch and a page without
\* Document, a linked page was left in the queue, and no Document came back
C25_Witness ==
    /\ cpc = "done"
    /\ max_pages_per_domain = 2
    /\ Cardinality(visited) = 2
    /\ Len(trace) = 2
    /\ trace[1].outcome = "parse_error"
    /\ trace[2].outcome = "fetch_error"
    /\ documents = <<>>
    /\ \E k \in 1..Len(queue) : queue[k][1] \notin visited

\* the distance between the starts of two consecutive chunks
Stride == chunk_size - chunk_overlap

\* C26: a non-empty text of length n gives ceil(n / (chunk_size -
\* chunk_overlap)) chunks when 0 <= chunk_overlap < chunk_size; every chunk
\* is non-empty and at most chunk_size long, and chunk i, counted from 0,
\* starts at index i * (chunk_size - chunk_overlap)
C26_ChunkCount ==
    (ipc = "embed" /\ CurrentText # <<>>) =>
        /\ Len(chunks) = (Len(CurrentText) + Stride - 1) \div Stride
        /\ \A k \in 1..Len(chunks) :
             /\ Len(chunks[k].text) >= 1
             /\ Len(chunks[k].text) <= chunk_size
             /\ windows[k] = (k - 1) * Stride
             /\ chunks[k].chunk_number = k - 1
             /\ \A p \in 1..Len(chunks[k].text) :
                  chunks[k].text[p] = CurrentText[(k - 1) * Stride + p]

\* an overlap, a length that is no multiple of the stride, and a last chunk
\* shorter than the others
C26_Witness ==
    /\ ipc = "embed"
    /\ chunk_overlap = 1
    /\ chunk_size = 3
    /\ Len(CurrentText) = 3
    /\ Len(chunks) = 2
    /\ Len(chunks[2].text) = 1

\* while the call runs or after it raised the store has received nothing;
\* after it returned the store has received one upsert, of the points of
\* all the records in order, and the call gave the number of records
C27_State ==
    /\ spc \in {"loop", "raised"} => sd_upserts = <<>> /\ sd_result = -1
    /\ spc = "done" =>
          /\ Len(sd_upserts) = 1
          /\ sd_upserts[1] = [k \in 1..Len(sd_data) |-> StructPoint(sd_data[k], "structured")]
          /\ sd_result = Len(sd_data)

\* the store is written only when every record has its point, and a call
\* that raised stays raised
C27_Step ==
    /\ sd_upserts' # sd_upserts => sd_index = Len(sd_data) /\ spc' = "done"
    /\ spc = "raised" => spc' = "raised"

\* C27: ingest_structured_data makes one upsert, after every record is
\* embedded; when embedding a record or the upsert raises, the exception
\* ends the call and no point of the batch is upserted, the points of the
\* records before the failing one included
C27_AllOrNothing == []C27_State /\ [][C27_Step]_vars

\* the second of two records failed after the point of the first was built
C27_Witness ==
    /\ spc = "raised"
    /\ Len(sd_data) = 2
    /\ sd_index = 1
    /\ Len(sd_points) = 1
    /\ sd_upserts = <<>>

(***************************************************************************)
(* The worker's /execute endpoint (worker/app.py:197-247).  The service    *)
(* answers one request after the other.                                    *)
(***************************************************************************)
\* the task types execute_task has a branch for
KnownTasks == {"structured_lookup", "rag_search", "fuzzy_match"}

\* the task types of the requests: the known ones and two others
TaskTypes == KnownTasks \cup {"summarize", ""}

Requests == { ExecuteRequest(t, h) : t \in TaskTypes, h \in {"returns", "raises"} }

\* an exception, or none
NoException == [raised |-> FALSE, type |-> "none", status_code |-> 0]

HTTPException(code) == [raised |-> TRUE, type |-> "HTTPException", status_code |-> code]

HandlerError == [raised |-> TRUE, type |-> "Exception", status_code |-> 0]

\* the body of the try block: the branch for the task type, whose function
\* may raise, or raise HTTPException(status_code=400, ...)
TryBody(req) ==
    IF req.task_type \in KnownTasks
    THEN IF req.handler = "raises" THEN HandlerError ELSE NoException
    ELSE HTTPException(400)

\* HTTPException is a subclass of Exception
IsException(e) == e.raised /\ e.type \in {"Exception", "HTTPException"}

\* execute_task: the JSONResponse it returns
ExecuteTask(req) ==
    LET e == TryBody(req)
    IN  IF IsException(e)
        THEN [status_code |-> 500, success |-> FALSE]
        ELSE [status_code |-> 200, success |-> TRUE]

WorkerInit ==
    /\ CrawlIdle
    /\ IngestIdle
    /\ TableIdle /\ RateIdle /\ StructIdle /\ StoreIdle
    /\ FetchIdle
    /\ OrchIdle
    /\ request = NoRequest
    /\ replies = <<>>
    /\ wpc = "wait"

\* a request arrives
Receive ==
    /\ wpc = "wait"
    /\ Len(replies) < MaxRequests
    /\ request' \in Requests
    /\ wpc' = "execute"
    /\ UNCHANGED replies
    /\ UNCHANGED <<crawlVars, ingestVars, tableVars, rateVars, structVars, storeVars,
                   fetchVars, orchVars>>

\* execute_task answers it
Execute ==
    /\ wpc = "execute"
    /\ LET r == ExecuteTask(request)
       IN  replies' = Append(replies,
                             [task_type |-> request.task_type,
                              handler |-> request.handler,
                              status_code |-> r.status_code,
                              success |-> r.success])
    /\ wpc' = "wait"
    /\ UNCHANGED request
    /\ UNCHANGED <<crawlVars, ingestVars, tableVars, rateVars, structVars, storeVars,
                   fetchVars, orchVars>>

WorkerNext == Receive \/ Execute

WorkerSpec == WorkerInit /\ [][WorkerNext]_vars

\* C28: a request with a task_type other than structured_lookup, rag_search
\* and fuzzy_match is answered with status 400, and a request whose task
\* function raises with status 500 and success = false
C28_UnknownTaskIs400 ==
    \A k \in 1..Len(replies) :
        /\ replies[k].task_type \notin KnownTasks => replies[k].status_code = 400
        /\ (replies[k].task_type \in KnownTasks /\ replies[k].handler = "raises") =>
              replies[k].status_code = 500 /\ ~replies[k].success

(***************************************************************************)
(* Orchestrator.process_question (orchestrator.py:243-365).  The           *)
(* classifier, the planner and the validator are calls to an LLM: each     *)
(* returns or raises.  The worker call posts to the worker's /execute with *)
(* the intent as task type.                                                *)
(***************************************************************************)
IntentTypes == KnownTasks \cup {"clarification_needed"}

Classifications ==
    { Classification(t, c) : t \in IntentTypes, c \in 0..MaxConfidence }

\* one stage call and how it went: "ok", "raised", or, for the worker call,
\* "failed" (an unsuccessful WorkerResponse)
Stage(stage, outcome) == [stage |-> stage, outcome |-> outcome]

\* the variables of the other components
belowOrch == <<crawlVars, ingestVars, parserVars, structVars, storeVars,
               fetchVars, workerVars>>

\* execute_via_worker: the POST may fail (transport = "fails": connection
\* error, timeout, a body that is no WorkerResponse), the worker may answer
\* with another status than 200; both give WorkerResponse(success=False)
ExecuteViaWorker(cls, handler, transport) ==
    IF transport = "fails" THEN WorkerResponse(TRUE, FALSE)
    ELSE LET r == ExecuteTask(ExecuteRequest(cls.intent_type, handler))
         IN  IF r.status_code = 200 THEN WorkerResponse(TRUE, r.success)
             ELSE WorkerResponse(TRUE, FALSE)

\* mutant: the exception leaves process_question
OnExceptionReraise == OrchestratorResult("raised", "none", 0)

\* except Exception: return {..., "confidence": 0.0, "intent": "error", ...}
OnException == OrchestratorResult("returned", "error", 0)

\* the call of process_question, for any threshold
OrchInit ==
    /\ CrawlIdle
    /\ IngestIdle
    /\ TableIdle /\ RateIdle /\ StructIdle /\ StoreIdle
    /\ FetchIdle
    /\ WorkerIdle
    /\ confidence_threshold \in 0..MaxConfidence
    /\ OrchLocalsFresh
    /\ opc = "classify"

\* Step 1: classification = await self.classify_intent(question)
ClassifyIntent ==
    /\ opc = "classify"
    /\ \E raised \in BOOLEAN, c \in Classifications :
          IF raised
          THEN /\ stages' = Append(stages, Stage("classify", "raised"))
               /\ orch_result' = OnException
               /\ opc' = "done"
               /\ UNCHANGED <<classification, thinking_steps>>
          ELSE /\ stages' = Append(stages, Stage("classify", "ok"))
               /\ classification' = c
               /\ thinking_steps' = Append(thinking_steps, "classification")
               /\ opc' = "check"
               /\ UNCHANGED orch_result
    /\ UNCHANGED <<confidence_threshold, worker_response, events>>
    /\ UNCHANGED belowOrch

\* the confidence test and the clarification test
CheckClassification ==
    /\ opc = "check"
    /\ IF classification.confidence < confidence_threshold
       THEN /\ orch_result' = OrchestratorResult("returned", "clarification_needed",
                                                  classification.confidence)
            /\ opc' = "done"
       ELSE IF classification.intent_type = "clarification_needed"
       THEN /\ orch_result' = OrchestratorResult("returned", classification.intent_type,
                                                  classification.confidence)
            /\ opc' = "done"
       ELSE /\ opc' = "plan"
            /\ UNCHANGED orch_result
    /\ UNCHANGED <<confidence_threshold, classification, worker_response,
                   thinking_steps, stages, events>>
    /\ UNCHANGED belowOrch

\* Step 2: plan = await self.plan_query(question, classification)
PlanQuery ==
    /\ opc = "plan"
    /\ \E raised \in BOOLEAN :
          IF raised
          THEN /\ stages' = Append(stages, Stage("plan", "raised"))
               /\ orch_result' = OnException
               /\ opc' = "done"
               /\ UNCHANGED thinking_steps
          ELSE /\ stages' = Append(stages, Stage("plan", "ok"))
               /\ thinking_steps' = Append(thinking_steps, "planning")
               /\ opc' = "worker"
               /\ UNCHANGED orch_result
    /\ UNCHANGED <<confidence_threshold, classification, worker_response, events>>
    /\ UNCHANGED belowOrch

\* Step 3: worker_response = await self.execute_via_worker(plan,
\* classification), and the test of its success
CallWorker ==
    /\ opc = "worker"
    /\ \E handler \in {"returns", "raises"}, transport \in {"ok", "fails"} :
          LET w == ExecuteViaWorker(classification, handler, transport)
          IN  /\ worker_response' = w
              /\ IF ~w.success
                 THEN /\ stages' = Append(stages, Stage("worker", "failed"))
                      /\ orch_result' = OrchestratorResult("returned",
                                            classification.intent_type, 0)
                      /\ opc' = "done"
                      /\ UNCHANGED thinking_steps
                 ELSE /\ stages' = Append(stages, Stage("worker", "ok"))
                      /\ thinking_steps' = Append(thinking_steps, "execution")
                      /\ opc' = "validate"
                      /\ UNCHANGED orch_result
    /\ UNCHANGED <<confidence_threshold, classification, events>>
    /\ UNCHANGED belowOrch

\* Step 4: validation = await self.validate_response(...), and the return
ValidateResponse ==
    /\ opc = "validate"
    /\ \E raised \in BOOLEAN :
          IF raised
          THEN /\ stages' = Append(stages, Stage("validate", "raised"))
               /\ orch_result' = OnException
               /\ UNCHANGED thinking_steps
          ELSE /\ stages' = Append(stages, Stage("validate", "ok"))
               /\ thinking_steps' = Append(thinking_steps, "validation")
               /\ orch_result' = OrchestratorResult("returned",
                                     classification.intent_type,
                                     classification.confidence)
    /\ opc' = "done"
    /\ UNCHANGED <<confidence_threshold, classification, worker_response, events>>
    /\ UNCHANGED belowOrch

OrchNext ==
    ClassifyIntent \/ CheckClassification \/ PlanQuery \/ CallWorker \/ ValidateResponse

OrchSpec == OrchInit /\ [][OrchNext]_vars

(***************************************************************************)
(* Properties of process_question                                          *)
(***************************************************************************)
StageOrder == <<"classify", "plan", "worker", "validate">>

\* the stage was called
Ran(stage) == \E k \in 1..Len(stages) : stages[k].stage = stage

\* C29: the stages are called in the order classify, plan, worker call,
\* validate, each at most once and only after all earlier ones went well;
\* the worker is not called when the confidence is below the threshold or
\* the intent is clarification_needed, the validator is not called after an
\* unsuccessful worker response, and no exception leaves the call: when a
\* stage raised, the call returned intent "error" with confidence 0.0
C29_StagesInOrder ==
    /\ Len(stages) <= Len(StageOrder)
    /\ \A k \in 1..Len(stages) :
         /\ stages[k].stage = StageOrder[k]
         /\ k < Len(stages) => stages[k].outcome = "ok"
    /\ Ran("worker") =>
         /\ classification.confidence >= confidence_threshold
         /\ classification.intent_type # "clarification_needed"
    /\ Ran("validate") => worker_response.success
    /\ worker_response.called /\ ~worker_response.success => ~Ran("validate")
    /\ orch_result.kind # "raised"
    /\ opc = "done" => orch_result.kind = "returned"
    /\ (\E k \in 1..Len(stages) : stages[k].outcome = "raised") =>
         orch_result = OrchestratorResult("returned", "error", 0)

\* all four stages ran and the validator raised
C29_Witness ==
    /\ opc = "done"
    /\ Len(stages) = 4
    /\ stages[4] = Stage("validate", "raised")
    /\ classification.confidence = confidence_threshold
    /\ orch_result.intent = "error"
    /\ Len(thinking_steps) = 3

(***************************************************************************)
(* Orchestrator.process_question_streaming (orchestrator.py:367-495): an   *)
(* async generator; events holds the step types of what it has yielded to  *)
(* a consumer that reads on to the end.                                    *)
(***************************************************************************)
\* yield self.streaming_handler.format_event(ThinkingStep(step_type=...))
Yield(evs, step_type) == Append(evs, step_type)

\* mutant: the except clause yields nothing
OnStreamExceptionSilent(evs) == evs

\* except Exception: yield ... ThinkingStepType.FINAL_ANSWER ...
OnStreamException(evs) == Yield(evs, "FINAL_ANSWER")

\* the positions inside the try block
TryPositions ==
    {"s_start", "s_classify", "s_check", "s_plan", "s_worker", "s_validate", "s_final"}

StreamInit ==
    /\ CrawlIdle
    /\ IngestIdle
    /\ TableIdle /\ RateIdle /\ StructIdle /\ StoreIdle
    /\ FetchIdle
    /\ WorkerIdle
    /\ confidence_threshold \in 0..MaxConfidence
    /\ OrchLocalsFresh
    /\ opc = "s_start"

\* the start event and the event that announces the classification
StreamStart ==
    /\ opc = "s_start"
    /\ events' = Yield(Yield(events, "THOUGHT"), "THOUGHT")
    /\ opc' = "s_classify"
    /\ UNCHANGED <<confidence_threshold, classification, worker_response,
                   thinking_steps, stages, orch_result>>
    /\ UNCHANGED belowOrch

\* Step 1: the classification and the event that reports it
StreamClassify ==
    /\ opc = "s_classify"
    /\ classification' \in Classifications
    /\ stages' = Append(stages, Stage("classify", "ok"))
    /\ events' = Yield(events, "OBSERVATION")
    /\ opc' = "s_check"
    /\ UNCHANGED <<confidence_threshold, worker_response, thinking_steps, orch_result>>
    /\ UNCHANGED belowOrch

\* the confidence test and the clarification test, each with a final
\* answer and a return; otherwise the event that announces the planning
StreamCheck ==
    /\ opc = "s_check"
    /\ IF classification.confidence < confidence_threshold
       THEN /\ events' = Yield(events, "FINAL_ANSWER")
            /\ opc' = "s_done"
       ELSE IF classification.intent_type = "clarification_needed"
       THEN /\ events' = Yield(events, "FINAL_ANSWER")
            /\ opc' = "s_done"
       ELSE /\ events' = Yield(events, "THOUGHT")
            /\ opc' = "s_plan"
    /\ UNCHANGED <<confidence_threshold, classification, worker_response,
                   thinking_steps, stages, orch_result>>
    /\ UNCHANGED belowOrch

\* Step 2: the plan and the event that reports the strategy
StreamPlan ==
    /\ opc = "s_plan"
    /\ stages' = Append(stages, Stage("plan", "ok"))
    /\ events' = Yield(events, "ACTION")
    /\ opc' = "s_worker"
    /\ UNCHANGED <<confidence_threshold, classification, worker_response,
                   thinking_steps, orch_result>>
    /\ UNCHANGED belowOrch

\* Step 3: the worker call; a final answer and a return when it was
\* unsuccessful, otherwise the events before the validation
StreamWorker ==
    /\ opc = "s_worker"
    /\ \E handler \in {"returns", "raises"}, transport \in {"ok", "fails"} :
          LET w == ExecuteViaWorker(classification, handler, transport)
          IN  /\ worker_response' = w
              /\ IF ~w.success
                 THEN /\ stages' = Append(stages, Stage("worker", "failed"))
                      /\ events' = Yield(events, "FINAL_ANSWER")
                      /\ opc' = "s_done"
                 ELSE /\ stages' = Append(stages, Stage("worker", "ok"))
                      /\ events' = Yield(Yield(events, "OBSERVATION"), "THOUGHT")
                      /\ opc' = "s_validate"
    /\ UNCHANGED <<confidence_threshold, classification, thinking_steps, orch_result>>
    /\ UNCHANGED belowOrch

\* Step 4: the validation and the event that reports it, valid or not
StreamValidate ==
    /\ opc = "s_validate"
    /\ stages' = Append(stages, Stage("validate", "ok"))
    /\ events' = Yield(events, "OBSERVATION")
    /\ opc' = "s_final"
    /\ UNCHANGED <<confidence_threshold, classification, worker_response,
                   thinking_steps, orch_result>>
    /\ UNCHANGED belowOrch

\* the final answer of a run that went through
StreamFinal ==
    /\ opc = "s_final"
    /\ events' = Yield(events, "FINAL_ANSWER")
    /\ opc' = "s_done"
    /\ UNCHANGED <<confidence_threshold, classification, worker_response,
                   thinking_steps, stages, orch_result>>
    /\ UNCHANGED belowOrch

\* the statement at hand raises (a stage call, or the making of an event):
\* the except clause yields its final answer and the generator ends
StreamRaise ==
    /\ opc \in TryPositions
    /\ events' = OnStreamException(events)
    /\ opc' = "s_done"
    /\ UNCHANGED <<confidence_threshold, classification, worker_response,
                   thinking_steps, stages, orch_result>>
    /\ UNCHANGED belowOrch

StreamNext ==
    \/ StreamStart
    \/ StreamClassify
    \/ StreamCheck
    \/ StreamPlan
    \/ StreamWorker
    \/ StreamValidate
    \/ StreamFinal
    \/ StreamRaise

StreamSpec == StreamInit /\ [][StreamNext]_vars

\* the positions of the stream that hold a final answer
Finals == { k \in 1..Len(events) : events[k] = "FINAL_ANSWER" }

\* C30: a stream read to its end holds exactly one FINAL_ANSWER event, its
\* last one, on every path: low confidence, clarification needed, worker
\* failure, success, and an exception at any stage; before the end it holds
\* none
C30_OneFinalAnswer ==
    /\ opc = "s_done" => Finals = {Len(events)} /\ Len(events) >= 1
    /\ opc # "s_done" => Finals = {}

\* the validator raised after a successful worker call
C30_Witness ==
    /\ opc = "s_done"
    /\ Len(stages) = 3
    /\ worker_response.success
    /\ events = <<"THOUGHT", "THOUGHT", "OBSERVATION", "THOUGHT", "ACTION",
                  "OBSERVATION", "THOUGHT", "FINAL_ANSWER">>
=============================================================================
